---- MODULE Spec2Model ----
(***************************************************************************)
(* A model of the socks5 crate: the server's per-connection handshake      *)
(* (tcp_server_stream.rs, async_proto.rs, proto.rs), the splice relay      *)
(* (tcp_server_stream/copy.rs), the accept loop (bin/socks5-server.rs),    *)
(* the wire codec and the client's connect (tcp_sock_stream.rs).           *)
(*                                                                         *)
(* Spec             one server session, ClientStream::handle, driven over  *)
(*                  a client byte stream that ends in EOF.                 *)
(* SpecSplice       one call of splice_bidirectional over two sockets;     *)
(*                  SpecSpliceFair adds fair scheduling, SpecSpliceBurst a *)
(*                  burst longer than pipe and send queue, SpecSplicePoll  *)
(*                  a caller that polls a completed future again.          *)
(* SpecServer       the accept loop and the tasks it spawns.               *)
(* SpecCodec        a message encoded and decoded, bytes decoded and       *)
(*                  encoded again.                                         *)
(* SpecClient       one call of the client's connect.                      *)
(* SpecCall         Address::from_str on a string; the two Address         *)
(*                  decoders on the same bytes.                            *)
(***************************************************************************)
EXTENDS Integers, Sequences, FiniteSets, TLC

(***************************************************************************)
(* Bounds of the model.                                                    *)
(***************************************************************************)
\* longest method list a modelled client greeting carries
MaxMethods == 2
\* most payload bytes the library relay of a session is followed for
MaxRelay == 2

(***************************************************************************)
(* Program constants (proto.rs).                                           *)
(***************************************************************************)
SOCKS_VERSION == 5
RESERVED == 0
\* AuthMethod::NoAuth as u8
NoAuth == 0
\* ClientCommand::EstablishConnection as u8
EstablishConnection == 1
\* ServerStatus discriminants
RequestGranted == 0
GeneralFailure == 1
NetworkUnreachable == 3
HostUnreachable == 4
ConnectionRefusedByDestinationHost == 5
TtlExpired == 6
CommandNotSupported == 7

\* EMPTY_ADDRESS = Address::Ipv4(0.0.0.0)
EMPTY_ADDRESS == [tag |-> "Ipv4", bytes |-> <<0, 0, 0, 0>>]
NoAddress == [tag |-> "none", bytes |-> <<>>]

(***************************************************************************)
(* Helpers on byte sequences.                                              *)
(***************************************************************************)
Min(a, b) == IF a < b THEN a ELSE b

Prefix(s, n) == SubSeq(s, 1, Min(n, Len(s)))

Drop(s, n) == SubSeq(s, Min(n, Len(s)) + 1, Len(s))

IsPrefix(p, s) == Len(p) <= Len(s) /\ SubSeq(s, 1, Len(p)) = p

Contains(s, x) == \E i \in 1..Len(s) : s[i] = x

SeqsUpTo(S, n) == UNION {[1..k -> S] : k \in 0..n}

Prefixes(s) == {SubSeq(s, 1, k) : k \in 0..Len(s)}

\* u16::to_be_bytes
U16Bytes(p) == <<p \div 256, p % 256>>

\* u16::from_be_bytes
U16FromBytes(b) == b[1] * 256 + b[2]

(***************************************************************************)
(* String::from_utf8: whether a byte sequence is well-formed UTF-8.        *)
(***************************************************************************)
IsCont(b) == b >= 128 /\ b <= 191

RECURSIVE Utf8Valid(_)
Utf8Valid(s) ==
    IF \A i \in 1..Len(s) : s[i] < 128 THEN TRUE
    ELSE LET b == s[1]
             n == Len(s)
         IN  IF b < 128 THEN Utf8Valid(Drop(s, 1))
             ELSE IF b >= 194 /\ b <= 223
                  THEN n >= 2 /\ IsCont(s[2]) /\ Utf8Valid(Drop(s, 2))
             ELSE IF b >= 224 /\ b <= 239
                  THEN /\ n >= 3
                       /\ IsCont(s[2]) /\ IsCont(s[3])
                       /\ (b = 224 => s[2] >= 160)
                       /\ (b = 237 => s[2] <= 159)
                       /\ Utf8Valid(Drop(s, 3))
             ELSE IF b >= 240 /\ b <= 244
                  THEN /\ n >= 4
                       /\ IsCont(s[2]) /\ IsCont(s[3]) /\ IsCont(s[4])
                       /\ (b = 240 => s[2] >= 144)
                       /\ (b = 244 => s[2] <= 143)
                       /\ Utf8Valid(Drop(s, 4))
             ELSE FALSE

(***************************************************************************)
(* Wire codec, server side (async_proto.rs).  A stream is the sequence of  *)
(* bytes the client sends before it closes; a reader returns what it       *)
(* decoded and `used`, the number of bytes it took from the stream.        *)
(***************************************************************************)
\* a lenient conversion that keeps every byte as a method
AuthMethodAny(b) == TRUE

\* AuthMethod::try_from(u8): Ok for 0x00, 0x01, 0x02 only
AuthMethodOk(b) == b \in {0, 1, 2}

\* ClientCommand::try_from(u8): Ok for 0x01, 0x02, 0x03 only
ClientCommandOk(b) == b \in {1, 2, 3}

GreetingErr(e, n) == [kind |-> "err", err |-> e, methods |-> <<>>, used |-> n]

\* ClientGreeting::read_from_stream, skipping the version check
GreetingReadNoVersionCheck(s) ==
    IF Len(s) < 2 THEN GreetingErr("UnexpectedEof", Len(s))
    ELSE LET auth_bytes == Prefix(Drop(s, 2), s[2])
         IN  IF \E i \in 1..Len(auth_bytes) : ~AuthMethodOk(auth_bytes[i])
             THEN GreetingErr("InvalidData", 2 + Len(auth_bytes))
             ELSE [kind |-> "ok", err |-> "none", methods |-> auth_bytes,
                   used |-> 2 + Len(auth_bytes)]

\* ClientGreeting::read_from_stream
GreetingRead(s) ==
    \* read_exact(&mut buf) of two bytes
    IF Len(s) < 2 THEN GreetingErr("UnexpectedEof", Len(s))
    ELSE IF s[1] # SOCKS_VERSION THEN GreetingErr("InvalidData", 2)
    ELSE \* take(nauth).read_to_end: stops early, without error, at EOF
         LET nauth == s[2]
             auth_bytes == Prefix(Drop(s, 2), nauth)
         IN  IF \E i \in 1..Len(auth_bytes) : ~AuthMethodOk(auth_bytes[i])
             THEN GreetingErr("InvalidData", 2 + Len(auth_bytes))
             ELSE [kind |-> "ok", err |-> "none", methods |-> auth_bytes,
                   used |-> 2 + Len(auth_bytes)]

AddressErr(e, n) == [kind |-> "err", err |-> e, addr |-> NoAddress, used |-> n]

\* Address::read_from_stream
AddressRead(s) ==
    IF Len(s) < 1 THEN AddressErr("UnexpectedEof", 0)
    ELSE LET atyp == s[1]
             rest == Drop(s, 1)
         IN  CASE atyp = 1 ->
                    IF Len(rest) < 4 THEN AddressErr("UnexpectedEof", Len(s))
                    ELSE [kind |-> "ok", err |-> "none", used |-> 5,
                          addr |-> [tag |-> "Ipv4", bytes |-> Prefix(rest, 4)]]
               [] atyp = 3 ->
                    IF Len(rest) < 1 THEN AddressErr("UnexpectedEof", Len(s))
                    ELSE LET dn_len == rest[1]
                             dn == Prefix(Drop(rest, 1), dn_len)
                         IN  IF Len(dn) < dn_len
                             THEN AddressErr("UnexpectedEof", Len(s))
                             ELSE IF ~Utf8Valid(dn)
                             THEN AddressErr("InvalidData", 2 + dn_len)
                             ELSE [kind |-> "ok", err |-> "none",
                                   used |-> 2 + dn_len,
                                   addr |-> [tag |-> "DomainName", bytes |-> dn]]
               [] atyp = 4 ->
                    IF Len(rest) < 16 THEN AddressErr("UnexpectedEof", Len(s))
                    ELSE [kind |-> "ok", err |-> "none", used |-> 17,
                          addr |-> [tag |-> "Ipv6", bytes |-> Prefix(rest, 16)]]
               [] OTHER -> AddressErr("InvalidData", 1)

RequestFail(k, e, n) ==
    [kind |-> k, err |-> e, cmd |-> 0, addr |-> NoAddress, port |-> 0, used |-> n]

\* ClientConnectionRequest::read_from_stream, skipping the reserved-byte check
RequestReadNoReservedCheck(s) ==
    LET buf == Prefix(s, 3)
    IN  IF Len(buf) < 1 THEN RequestFail("panic", "index", Len(buf))
        ELSE IF buf[1] # SOCKS_VERSION THEN RequestFail("err", "InvalidData", Len(buf))
        ELSE IF Len(buf) < 3 THEN RequestFail("panic", "index", Len(buf))
        ELSE IF ~ClientCommandOk(buf[2]) THEN RequestFail("err", "InvalidInput", 3)
        ELSE LET a == AddressRead(Drop(s, 3))
                 tail == Drop(s, 3 + a.used)
             IN  IF a.kind # "ok" THEN RequestFail("err", a.err, 3 + a.used)
                 ELSE IF Len(tail) < 2
                 THEN RequestFail("err", "UnexpectedEof", Len(s))
                 ELSE [kind |-> "ok", err |-> "none", cmd |-> buf[2],
                       addr |-> a.addr, port |-> U16FromBytes(tail),
                       used |-> 3 + a.used + 2]

\* ClientConnectionRequest::read_from_stream
RequestRead(s) ==
    \* take(3).read_to_end: up to three bytes, fewer at EOF, never an error
    LET buf == Prefix(s, 3)
    IN  \* buf[0] on an empty Vec: index out of bounds
        IF Len(buf) < 1 THEN RequestFail("panic", "index", Len(buf))
        ELSE IF buf[1] # SOCKS_VERSION THEN RequestFail("err", "InvalidData", Len(buf))
        \* buf[2] on a Vec shorter than three: index out of bounds
        ELSE IF Len(buf) < 3 THEN RequestFail("panic", "index", Len(buf))
        ELSE IF buf[3] # RESERVED THEN RequestFail("err", "InvalidData", 3)
        ELSE IF ~ClientCommandOk(buf[2]) THEN RequestFail("err", "InvalidInput", 3)
        ELSE LET a == AddressRead(Drop(s, 3))
                 tail == Drop(s, 3 + a.used)
             IN  IF a.kind # "ok" THEN RequestFail("err", a.err, 3 + a.used)
                 ELSE IF Len(tail) < 2
                 THEN RequestFail("err", "UnexpectedEof", Len(s))
                 ELSE [kind |-> "ok", err |-> "none", cmd |-> buf[2],
                       addr |-> a.addr, port |-> U16FromBytes(tail),
                       used |-> 3 + a.used + 2]

\* Address::as_bytes
AddressAsBytes(a) ==
    CASE a.tag = "Ipv4" -> <<1>> \o a.bytes
      [] a.tag = "DomainName" -> <<3, Len(a.bytes) % 256>> \o a.bytes
      [] a.tag = "Ipv6" -> <<4>> \o a.bytes

\* ServerResponse::as_bytes
ServerResponseAsBytes(status, bound_address, bound_port) ==
    <<SOCKS_VERSION, status, RESERVED>>
        \o AddressAsBytes(bound_address) \o U16Bytes(bound_port)

(***************************************************************************)
(* Wire codec, client side (proto.rs, sync_proto.rs): the encoders of the  *)
(* greeting and the request, and the blocking decoders, whose read_exact   *)
(* fails with UnexpectedEof when the stream ends early.                    *)
(***************************************************************************)
\* ClientGreeting::write_to: the bytes it writes
ClientGreetingBytes(methods) ==
    <<SOCKS_VERSION, Len(methods) % 256>> \o methods

\* an encoder that forgets the length byte of a domain name
AddressIntoNoLength(a) ==
    CASE a.tag = "Ipv4" -> <<1>> \o a.bytes
      [] a.tag = "DomainName" -> <<3>> \o a.bytes
      [] a.tag = "Ipv6" -> <<4>> \o a.bytes

\* impl Into<Vec<u8>> for &Address
AddressInto(a) ==
    CASE a.tag = "Ipv4" -> <<1>> \o a.bytes
      [] a.tag = "DomainName" -> <<3, Len(a.bytes) % 256>> \o a.bytes
      [] a.tag = "Ipv6" -> <<4>> \o a.bytes

\* ClientConnectionRequest::write_to: the bytes it writes
ClientConnectionRequestBytes(cmd, dest_addr, dest_port) ==
    <<SOCKS_VERSION, cmd, 0>> \o AddressInto(dest_addr) \o U16Bytes(dest_port)

\* ServerStatus::try_from(u8): Ok for 0x00 to 0x08
ServerStatusOk(b) == b \in 0..8

\* a blocking decoder that keeps the bytes of a domain name that are not
\* UTF-8
AddressReadFromLossy(s) ==
    LET r == AddressRead(s)
    IN  IF r.kind = "err" /\ r.err = "InvalidData" /\ s[1] = 3
        THEN [kind |-> "ok", err |-> "none", used |-> r.used,
              addr |-> [tag |-> "DomainName", bytes |-> SubSeq(s, 3, r.used)]]
        ELSE r

\* Address::read_from
AddressReadFrom(s) ==
    IF Len(s) < 1 THEN AddressErr("UnexpectedEof", 0)
    ELSE LET rest == Drop(s, 1)
         IN  CASE s[1] = 1 ->
                    IF Len(rest) < 4 THEN AddressErr("UnexpectedEof", Len(s))
                    ELSE [kind |-> "ok", err |-> "none", used |-> 5,
                          addr |-> [tag |-> "Ipv4", bytes |-> Prefix(rest, 4)]]
               [] s[1] = 3 ->
                    IF Len(rest) < 1 THEN AddressErr("UnexpectedEof", Len(s))
                    ELSE LET dn_len == rest[1]
                             dn == Prefix(Drop(rest, 1), dn_len)
                         IN  IF Len(dn) < dn_len
                             THEN AddressErr("UnexpectedEof", Len(s))
                             ELSE IF ~Utf8Valid(dn)
                             THEN AddressErr("InvalidData", 2 + dn_len)
                             ELSE [kind |-> "ok", err |-> "none",
                                   used |-> 2 + dn_len,
                                   addr |-> [tag |-> "DomainName", bytes |-> dn]]
               [] s[1] = 4 ->
                    IF Len(rest) < 16 THEN AddressErr("UnexpectedEof", Len(s))
                    ELSE [kind |-> "ok", err |-> "none", used |-> 17,
                          addr |-> [tag |-> "Ipv6", bytes |-> Prefix(rest, 16)]]
               [] OTHER -> AddressErr("InvalidData", 1)

ResponseFail(e, n) ==
    [kind |-> "err", err |-> e, status |-> 0, addr |-> NoAddress, port |-> 0,
     used |-> n]

\* ServerResponse::read_from
ServerResponseRead(s) ==
    IF Len(s) < 3 THEN ResponseFail("UnexpectedEof", Len(s))
    ELSE IF s[1] # SOCKS_VERSION THEN ResponseFail("InvalidData", 3)
    ELSE IF ~ServerStatusOk(s[2]) THEN ResponseFail("InvalidData", 3)
    ELSE IF s[3] # 0 THEN ResponseFail("InvalidData", 3)
    ELSE LET a == AddressReadFrom(Drop(s, 3))
             tail == Drop(s, 3 + a.used)
         IN  IF a.kind # "ok" THEN ResponseFail(a.err, 3 + a.used)
             ELSE IF Len(tail) < 2 THEN ResponseFail("UnexpectedEof", Len(s))
             ELSE [kind |-> "ok", err |-> "none", status |-> s[2],
                   addr |-> a.addr, port |-> U16FromBytes(tail),
                   used |-> 3 + a.used + 2]

(***************************************************************************)
(* State of one server session (ClientStream::handle).                     *)
(***************************************************************************)
VARIABLES
    pc,        \* the await point the session task is at
    input,     \* bytes sent by the client and not yet read; EOF follows them
    out,       \* bytes written to the client socket so far
    pending,   \* bytes of the write_all in progress that are not yet written
    stream,    \* every byte the client sends on the connection, in order
    greeting,  \* result of ClientGreeting::read_from_stream
    request,   \* result of ClientConnectionRequest::read_from_stream
    dial,      \* outcome of TcpStream::connect, "none" before it is called
    relayed,   \* payload bytes copy_bidirectional has moved
    result,    \* what handle returned: "none", "ok", "err" or "panic"
    ioerr      \* a write to the client socket failed

svars == <<pc, input, stream, out, pending, greeting, request, dial, relayed,
           result, ioerr>>

\* State of one call of splice_bidirectional (copy.rs)
VARIABLES
    sock,   \* per socket: kernel queues, peer, cached readiness, wakers
    fut,    \* per direction: the SpliceFuture's fields and its pipe
    task    \* where the task running splice_bidirectional is

pvars == <<sock, fut, task>>

\* State of the server's accept loop (socks5-server.rs, main)
VARIABLES
    lis,    \* the accept loop: "accepting", or "exited" once main returned
    tasks,  \* per accepted connection: its spawned task
    log     \* the connections whose handler error was printed, in order

lvars == <<lis, tasks, log>>

\* One use of the wire codec: a message is encoded and the bytes decoded, or
\* a byte sequence is decoded and the message encoded again
VARIABLES
    codec   \* the message, the bytes, what was decoded, what was encoded again

\* State of one call of the client's connect (tcp_sock_stream.rs)
VARIABLES
    client  \* where connect is, what it wrote, what the server answers

\* One call of a function of proto.rs that stands on its own
VARIABLES
    call    \* the function, its argument and what it returned

\* the variables of everything that is neither a session nor a relay
xvars == <<lvars, codec, client, call>>

vars == <<pc, input, stream, out, pending, greeting, request, dial, relayed,
          result, ioerr, sock, fut, task, lis, tasks, log, codec, client,
          call>>

NoGreeting == [kind |-> "none", err |-> "none", methods |-> <<>>, used |-> 0]

NoRequest == RequestFail("none", "none", 0)

\* outcomes of TcpStream::connect: success or an io::Error of some kind
DialOutcomes ==
    {"ok", "ConnectionRefused", "HostUnreachable", "NetworkUnreachable",
     "TtlExpired", "Other"}

(***************************************************************************)
(* Client byte streams the session is driven over.                         *)
(***************************************************************************)
MethodBytes == {0, 2, 255}

GreetingStreams ==
    {<<SOCKS_VERSION, n>> \o ms :
        n \in 0..MaxMethods, ms \in SeqsUpTo(MethodBytes, MaxMethods)}
    \cup {<<>>, <<SOCKS_VERSION>>, <<4>>, <<4, 1, 0>>}

AddressStreams ==
    { <<1, 127, 0, 0, 1>>,
      <<3, 1, 97>>,
      <<3, 2, 195, 169>>,
      <<3, 1, 255>>,
      <<4, 0, 0, 0, 0, 0, 0, 0, 0, 0, 0, 0, 0, 0, 0, 0, 1>>,
      <<2, 127, 0, 0, 1>> }

\* VER CMD RSV ATYP DST.ADDR DST.PORT, with port 80
RequestStream(v, c, r, a) == <<v, c, r>> \o a \o <<0, 80>>

\* Connect requests to every address form, cut short at every length;
\* every command; wrong version and reserved bytes
RequestStreams ==
    UNION { Prefixes(RequestStream(SOCKS_VERSION, 1, RESERVED, a)) :
              a \in AddressStreams }
    \cup { RequestStream(SOCKS_VERSION, c, RESERVED, a) :
              c \in {2, 3, 9}, a \in {<<1, 127, 0, 0, 1>>, <<3, 1, 97>>} }
    \cup UNION { Prefixes(RequestStream(v, 1, r, <<1, 127, 0, 0, 1>>)) :
              v \in {4, SOCKS_VERSION}, r \in {1} }

SessionInit ==
    /\ pc = "read_client_greeting"
    /\ \E g \in GreetingStreams, r \in RequestStreams : stream = g \o r
    /\ input = stream
    /\ out = <<>>
    /\ pending = <<>>
    /\ greeting = NoGreeting
    /\ request = NoRequest
    /\ dial = "none"
    /\ relayed = 0
    /\ result = "none"
    /\ ioerr = FALSE

(***************************************************************************)
(* write_all on the client socket: the bytes go out in one or more writes; *)
(* a write can fail, and `?` then returns the error from handle.           *)
(***************************************************************************)
Writing == pc \in {"greeting_err_write", "auth_ok_write", "auth_none_write",
                    "request_err_write", "reply_write"}

WriteSome ==
    /\ Writing
    /\ pending # <<>>
    /\ \E k \in 1..Len(pending) :
          /\ out' = out \o Prefix(pending, k)
          /\ pending' = Drop(pending, k)
    /\ UNCHANGED <<pvars, xvars, stream, pc, input, greeting, request, dial, relayed,
                   result, ioerr>>

WriteFail ==
    /\ Writing
    /\ pending # <<>>
    /\ pc' = "done"
    /\ result' = "err"
    /\ ioerr' = TRUE
    /\ UNCHANGED <<pvars, xvars, stream, input, out, pending, greeting, request, dial,
                   relayed>>

\* the write_all at pc has completed
Written == pending = <<>>

\* handle returns Err: the stream is dropped
ReturnErr ==
    /\ pc' = "done"
    /\ result' = "err"

(***************************************************************************)
(* read_client_greeting                                                    *)
(***************************************************************************)
ReadClientGreeting ==
    /\ pc = "read_client_greeting"
    /\ LET r == GreetingRead(input)
       IN  /\ input' = Drop(input, r.used)
           /\ greeting' = r
           /\ IF r.kind = "ok"
              THEN /\ pc' = "choose_auth_method"
                   /\ pending' = pending
              ELSE /\ pc' = "greeting_err_write"
                   /\ pending' = <<SOCKS_VERSION, 255>>
    /\ UNCHANGED <<pvars, xvars, stream, out, request, dial, relayed, result, ioerr>>

GreetingErrReturn ==
    /\ pc = "greeting_err_write"
    /\ Written
    /\ ReturnErr
    /\ UNCHANGED <<pvars, xvars, stream, input, out, pending, greeting, request, dial,
                   relayed, ioerr>>

(***************************************************************************)
(* choose_auth_method                                                      *)
(***************************************************************************)
\* a method-selection slip: only the first offered method is looked at
FirstIsNoAuth(methods) == methods # <<>> /\ methods[1] = NoAuth

\* greeting.0.contains(&AuthMethod::NoAuth)
OffersNoAuth(methods) == Contains(methods, NoAuth)

ChooseAuthMethod ==
    /\ pc = "choose_auth_method"
    /\ IF OffersNoAuth(greeting.methods)
       THEN /\ pending' = <<SOCKS_VERSION, NoAuth>>
            /\ pc' = "auth_ok_write"
       ELSE /\ pending' = <<SOCKS_VERSION, 255>>
            /\ pc' = "auth_none_write"
    /\ UNCHANGED <<pvars, xvars, stream, input, out, greeting, request, dial, relayed,
                   result, ioerr>>

\* moving on to the request while the auth choice is still being written
AuthOkReturnEarly ==
    /\ pc = "auth_ok_write"
    /\ pc' = "read_connect_request"
    /\ pending' = <<>>
    /\ UNCHANGED <<pvars, xvars, stream, input, out, greeting, request, dial, relayed,
                   result, ioerr>>

\* Ok(WaitingForConnectRequest { stream })
AuthOkReturn ==
    /\ pc = "auth_ok_write"
    /\ Written
    /\ pc' = "read_connect_request"
    /\ UNCHANGED <<pvars, xvars, stream, input, out, pending, greeting, request, dial,
                   relayed, result, ioerr>>

AuthNoneReturn ==
    /\ pc = "auth_none_write"
    /\ Written
    /\ ReturnErr
    /\ UNCHANGED <<pvars, xvars, stream, input, out, pending, greeting, request, dial,
                   relayed, ioerr>>

(***************************************************************************)
(* read_connect_request                                                    *)
(***************************************************************************)
ReadConnectRequest ==
    /\ pc = "read_connect_request"
    /\ LET r == RequestRead(input)
       IN  /\ input' = Drop(input, r.used)
           /\ request' = r
           /\ CASE r.kind = "ok" ->
                     /\ pc' = "serve_connect_request"
                     /\ UNCHANGED <<pending, result>>
                [] r.kind = "err" ->
                     /\ pc' = "request_err_write"
                     /\ pending' =
                          ServerResponseAsBytes(GeneralFailure, EMPTY_ADDRESS, 0)
                     /\ UNCHANGED result
                [] OTHER ->
                     \* the task panics; unwinding drops the stream
                     /\ pc' = "done"
                     /\ result' = "panic"
                     /\ UNCHANGED pending
    /\ UNCHANGED <<pvars, xvars, stream, out, greeting, dial, relayed, ioerr>>

RequestErrReturn ==
    /\ pc = "request_err_write"
    /\ Written
    /\ ReturnErr
    /\ UNCHANGED <<pvars, xvars, stream, input, out, pending, greeting, request, dial,
                   relayed, ioerr>>

(***************************************************************************)
(* serve_connect_request                                                   *)
(***************************************************************************)
\* a server that dials whatever the command of the request is
ServeConnectRequestAnyCommand ==
    /\ pc = "serve_connect_request"
    /\ pc' = "connect"
    /\ UNCHANGED <<pvars, xvars, stream, input, out, pending, greeting, request, dial,
                   relayed, result, ioerr>>

ServeConnectRequest ==
    /\ pc = "serve_connect_request"
    /\ IF request.cmd # EstablishConnection
       THEN ReturnErr
       ELSE /\ pc' = "connect"
            /\ UNCHANGED result
    /\ UNCHANGED <<pvars, xvars, stream, input, out, pending, greeting, request, dial,
                   relayed, ioerr>>

\* a reply slip: RequestGranted is written whatever the dial returned
ConnectReplyAlways ==
    /\ pc = "connect"
    /\ \E o \in DialOutcomes :
          /\ dial' = o
          /\ pc' = "reply_write"
          /\ pending' = ServerResponseAsBytes(RequestGranted, EMPTY_ADDRESS, 0)
          /\ UNCHANGED result
    /\ UNCHANGED <<pvars, xvars, stream, input, out, greeting, request, relayed, ioerr>>

\* TcpStream::connect(..).await?  and the reply that follows it
Connect ==
    /\ pc = "connect"
    /\ \E o \in DialOutcomes :
          /\ dial' = o
          /\ IF o = "ok"
             THEN /\ pc' = "reply_write"
                  /\ pending' =
                       ServerResponseAsBytes(RequestGranted, EMPTY_ADDRESS, 0)
                  /\ UNCHANGED result
             ELSE /\ ReturnErr
                  /\ UNCHANGED pending
    /\ UNCHANGED <<pvars, xvars, stream, input, out, greeting, request, relayed, ioerr>>

ReplyReturn ==
    /\ pc = "reply_write"
    /\ Written
    /\ pc' = "relay"
    /\ UNCHANGED <<pvars, xvars, stream, input, out, pending, greeting, request, dial,
                   relayed, result, ioerr>>

\* copy_bidirectional moves a payload byte
RelayCopy ==
    /\ pc = "relay"
    /\ relayed < MaxRelay
    /\ relayed' = relayed + 1
    /\ UNCHANGED <<pvars, xvars, stream, pc, input, out, pending, greeting, request, dial,
                   result, ioerr>>

\* copy_bidirectional(..).await? returns
RelayReturn ==
    /\ pc = "relay"
    /\ pc' = "done"
    /\ result' \in {"ok", "err"}
    /\ UNCHANGED <<pvars, xvars, stream, input, out, pending, greeting, request, dial,
                   relayed, ioerr>>

\* ClientStream::handle
Handle ==
    \/ ReadClientGreeting
    \/ GreetingErrReturn
    \/ ChooseAuthMethod
    \/ AuthOkReturn
    \/ AuthNoneReturn
    \/ ReadConnectRequest
    \/ RequestErrReturn
    \/ ServeConnectRequest
    \/ Connect
    \/ ReplyReturn
    \/ RelayCopy
    \/ RelayReturn
    \/ WriteSome
    \/ WriteFail

(***************************************************************************)
(* The splice relay (copy.rs): splice_bidirectional(a, b).                 *)
(*                                                                         *)
(* Each socket has a kernel receive queue fed by its remote peer, a kernel *)
(* send queue drained by the peer, and the runtime's cached readiness; a   *)
(* direction is a SpliceFuture with its pipe.  The task runs one system    *)
(* call per step, so that the peers act between the calls of one poll.     *)
(***************************************************************************)
\* bytes each peer has to send
MaxData == 2
\* bytes a pipe holds
PipeCap == 2
\* bytes a socket's send queue holds
SndCap == 1

Socks == {"a", "b"}
Dirs == {"a_to_b", "b_to_a"}

\* splice_one_way(reader, writer)
Reader(d) == IF d = "a_to_b" THEN "a" ELSE "b"
Writer(d) == IF d = "a_to_b" THEN "b" ELSE "a"
Other(d) == IF d = "a_to_b" THEN "b_to_a" ELSE "a_to_b"

\* the payload the peer of socket s sends: bytes that differ from each other
DataOf(s) == [i \in 1..MaxData |-> IF s = "a" THEN i ELSE 10 + i]

SockInit(s, rd) ==
    [ rcv      |-> <<>>,      \* received and not yet spliced out of the socket
      fin      |-> FALSE,     \* the peer's FIN has arrived: EOF follows rcv
      sndq     |-> 0,         \* bytes in the send queue
      tosend   |-> DataOf(s), \* what the peer has yet to send
      rd_ready |-> rd,        \* cached read readiness
      wr_ready |-> TRUE,      \* cached write readiness
      rd_wait  |-> FALSE,     \* the task's waker is registered for reads
      wr_wait  |-> FALSE,     \* the task's waker is registered for writes
      err      |-> FALSE,     \* the connection was reset
      open     |-> TRUE ]     \* the TcpStream has not been dropped

\* SpliceFuture { state, num_buf, read_done, buf_read, buf_write }
FutInit ==
    [ state     |-> "Running",
      num_buf   |-> 0,
      read_done |-> FALSE,
      fds       |-> "none",   \* the pipe: none, open, closed or leaked
      pipe      |-> <<>>,     \* bytes in the pipe
      took      |-> <<>>,     \* every byte spliced from the reader, in order
      wrote     |-> <<>> ]    \* every byte spliced into the writer, in order

TaskInit ==
    [ pc     |-> "mk_a_to_b",
      mode   |-> "select",    \* in select!, or in the .await of the other
      todo   |-> <<>>,        \* futures select! has yet to poll this round
      cur    |-> "a_to_b",    \* the future being polled
      at     |-> "read",      \* the place in SpliceFuture::poll
      woken  |-> TRUE,        \* the task is scheduled to be polled
      again  |-> "none",      \* the Done future that was polled once more
      result |-> "none" ]     \* what splice_bidirectional returned

SpliceInit ==
    /\ \E ra, rb \in BOOLEAN :
          sock = [s \in Socks |-> SockInit(s, IF s = "a" THEN ra ELSE rb)]
    /\ fut = [d \in Dirs |-> FutInit]
    /\ task = TaskInit

\* no relay is running
SpliceOff ==
    /\ sock = [s \in Socks |-> SockInit(s, FALSE)]
    /\ fut = [d \in Dirs |-> FutInit]
    /\ task = [TaskInit EXCEPT !.pc = "off", !.woken = FALSE]

\* no session is running
SessionOff ==
    /\ pc = "off"
    /\ stream = <<>>
    /\ input = <<>>
    /\ out = <<>>
    /\ pending = <<>>
    /\ greeting = NoGreeting
    /\ request = NoRequest
    /\ dial = "none"
    /\ relayed = 0
    /\ result = "none"
    /\ ioerr = FALSE

(***************************************************************************)
(* The peers and the network.  An event on a socket sets the cached        *)
(* readiness and wakes the task if its waker is registered for it.         *)
(***************************************************************************)
WakeRead(t, k) == IF k.rd_wait THEN [t EXCEPT !.woken = TRUE] ELSE t
WakeWrite(t, k) == IF k.wr_wait THEN [t EXCEPT !.woken = TRUE] ELSE t

Live(s) == sock[s].open /\ ~sock[s].err /\ task.pc # "off"

\* the peer of s sends its next byte
PeerSend(s) ==
    /\ UNCHANGED <<svars, xvars>>
    /\ Live(s)
    /\ ~sock[s].fin
    /\ sock[s].tosend # <<>>
    /\ sock' = [sock EXCEPT ![s].rcv = Append(@, Head(sock[s].tosend)),
                            ![s].tosend = Tail(@),
                            ![s].rd_ready = TRUE,
                            ![s].rd_wait = FALSE]
    /\ task' = WakeRead(task, sock[s])
    /\ UNCHANGED fut

\* the peer of s shuts down its write half: s will read EOF
PeerFin(s) ==
    /\ UNCHANGED <<svars, xvars>>
    /\ Live(s)
    /\ ~sock[s].fin
    /\ sock' = [sock EXCEPT ![s].fin = TRUE,
                            ![s].tosend = <<>>,
                            ![s].rd_ready = TRUE,
                            ![s].rd_wait = FALSE]
    /\ task' = WakeRead(task, sock[s])
    /\ UNCHANGED fut

\* the peer of s takes a byte off the connection: s's send queue drains
PeerRecv(s) ==
    /\ UNCHANGED <<svars, xvars>>
    /\ Live(s)
    /\ sock[s].sndq > 0
    /\ sock' = [sock EXCEPT ![s].sndq = @ - 1,
                            ![s].wr_ready = TRUE,
                            ![s].wr_wait = FALSE]
    /\ task' = WakeWrite(task, sock[s])
    /\ UNCHANGED fut

\* the peer of s resets the connection
PeerReset(s) ==
    /\ UNCHANGED <<svars, xvars>>
    /\ Live(s)
    /\ sock' = [sock EXCEPT ![s].err = TRUE,
                            ![s].rcv = <<>>,
                            ![s].tosend = <<>>,
                            ![s].rd_ready = TRUE,
                            ![s].wr_ready = TRUE,
                            ![s].rd_wait = FALSE,
                            ![s].wr_wait = FALSE]
    /\ task' = WakeWrite(WakeRead(task, sock[s]), sock[s])
    /\ UNCHANGED fut

(***************************************************************************)
(* splice_one_way / sys_pipe                                               *)
(***************************************************************************)
\* pipe(2) fails; pipe(2) succeeds and an fcntl fails; all succeed
PipeOutcomes == {"pipe_err", "fcntl_err", "ok"}

\* what becomes of the two descriptors sys_pipe obtained
FdsAfter(o) ==
    CASE o = "ok" -> "open"
      [] o = "fcntl_err" -> "leaked"
      [] OTHER -> "none"

\* let mut a_to_b = splice_one_way(&a, &b)?;
MakeAtoB ==
    /\ UNCHANGED <<svars, xvars>>
    /\ task.pc = "mk_a_to_b"
    /\ \E o \in PipeOutcomes :
          /\ fut' = [fut EXCEPT !["a_to_b"].fds = FdsAfter(o)]
          /\ task' = IF o = "ok"
                     THEN [task EXCEPT !.pc = "mk_b_to_a"]
                     ELSE [task EXCEPT !.pc = "returning", !.result = "err"]
    /\ UNCHANGED sock

\* let mut b_to_a = splice_one_way(&b, &a)?;
MakeBtoA ==
    /\ UNCHANGED <<svars, xvars>>
    /\ task.pc = "mk_b_to_a"
    /\ \E o \in PipeOutcomes :
          /\ fut' = [fut EXCEPT !["b_to_a"].fds = FdsAfter(o)]
          /\ task' = IF o = "ok"
                     THEN [task EXCEPT !.pc = "idle"]
                     ELSE [task EXCEPT !.pc = "returning", !.result = "err"]
    /\ UNCHANGED sock

(***************************************************************************)
(* splice_bidirectional: select! over the two futures, then the .await of  *)
(* the one that is left.                                                   *)
(***************************************************************************)
\* the orders in which one poll of select! polls its two futures
Orders == {<<"a_to_b", "b_to_a">>, <<"b_to_a", "a_to_b">>}

\* the executor polls the woken task: select! starts a round
SelectPoll ==
    /\ UNCHANGED <<svars, xvars>>
    /\ task.pc = "idle"
    /\ task.woken
    /\ task.mode = "select"
    /\ \E o \in Orders :
          task' = [task EXCEPT !.woken = FALSE, !.todo = o, !.pc = "poll_next"]
    /\ UNCHANGED <<sock, fut>>

\* select! polls its next future, or returns Pending when none is left
SelectNext ==
    /\ UNCHANGED <<svars, xvars>>
    /\ task.pc = "poll_next"
    /\ task' = IF task.todo = <<>>
               THEN [task EXCEPT !.pc = "idle"]
               ELSE [task EXCEPT !.cur = Head(task.todo),
                                 !.todo = Tail(task.todo),
                                 !.pc = "poll",
                                 !.at = "read"]
    /\ UNCHANGED <<sock, fut>>

\* the executor polls the woken task: the awaited future is polled again
AwaitPoll ==
    /\ UNCHANGED <<svars, xvars>>
    /\ task.pc = "idle"
    /\ task.woken
    /\ task.mode = "await"
    /\ task' = [task EXCEPT !.woken = FALSE, !.pc = "poll", !.at = "read"]
    /\ UNCHANGED <<sock, fut>>

\* the future being polled returned Poll::Pending
OnPending(t) ==
    IF t.mode = "select"
    THEN [t EXCEPT !.pc = "poll_next"]
    ELSE [t EXCEPT !.pc = "idle"]

\* the first sketch: return as soon as one direction is ready
OnReadyReturn(t, d, res) ==
    [t EXCEPT !.pc = "returning", !.result = res]

\* a selector that treats an error like a completion and goes on to drive
\* the other future
OnReadyDrainOther(t, d, res) ==
    IF t.mode = "select"
    THEN [t EXCEPT !.mode = "await", !.cur = Other(d), !.todo = <<>>,
                   !.pc = "poll", !.at = "read"]
    ELSE [t EXCEPT !.pc = "returning", !.result = res]

\* the future d being polled returned Poll::Ready(res)
OnReady(t, d, res) ==
    IF res = "err" THEN [t EXCEPT !.pc = "returning", !.result = "err"]
    ELSE IF t.mode = "select"
         THEN \* the branch body: other.await polls the other future at once
              [t EXCEPT !.mode = "await", !.cur = Other(d), !.todo = <<>>,
                        !.pc = "poll", !.at = "read"]
         ELSE [t EXCEPT !.pc = "returning", !.result = "ok"]

\* splice_bidirectional returns: b_to_a, a_to_b, then b and a are dropped
Return ==
    /\ UNCHANGED <<svars, xvars>>
    /\ task.pc = "returning"
    /\ task' = [task EXCEPT !.pc = "returned"]
    /\ fut' = [d \in Dirs |->
                 [fut[d] EXCEPT !.fds = IF @ = "open" THEN "closed" ELSE @]]
    /\ sock' = [s \in Socks |-> [sock[s] EXCEPT !.open = FALSE]]

(***************************************************************************)
(* SpliceFuture::poll, for the future task.cur                             *)
(***************************************************************************)
Polling(d) == task.pc = "poll" /\ task.cur = d

\* where the loop goes after the read half: wait for the reader, or go on
AfterRead(f) ==
    IF f.num_buf = 0 /\ ~f.read_done THEN "rdwait" ELSE "check"

\* if !self.read_done { try_io(READABLE, splice(reader, buf_write, 64 << 10)) }
SpliceIn(d) ==
    /\ UNCHANGED <<svars, xvars>>
    /\ Polling(d)
    /\ task.at = "read"
    /\ LET f == fut[d]
           r == Reader(d)
           k == sock[r]
           room == PipeCap - Len(f.pipe)
       IN  IF f.read_done
           THEN /\ task' = [task EXCEPT !.at = AfterRead(f)]
                /\ UNCHANGED <<sock, fut>>
           ELSE IF ~k.rd_ready
           THEN \* try_io: not ready, WouldBlock without the system call
                /\ task' = [task EXCEPT !.at = AfterRead(f)]
                /\ UNCHANGED <<sock, fut>>
           ELSE IF room = 0 \/ (k.rcv = <<>> /\ ~k.fin /\ ~k.err)
           THEN \* EAGAIN: the pipe is full, or the socket has nothing;
                \* try_io clears the cached read readiness, which stays
                \* set once the read half is known to be closed
                /\ sock' = [sock EXCEPT ![r].rd_ready = k.fin \/ k.err]
                /\ task' = [task EXCEPT !.at = AfterRead(f)]
                /\ UNCHANGED fut
           ELSE IF k.err
           THEN /\ task' = OnReady(task, d, "err")
                /\ UNCHANGED <<sock, fut>>
           ELSE IF k.rcv = <<>>
           THEN \* Ok(0): end of input
                /\ fut' = [fut EXCEPT ![d].read_done = TRUE]
                /\ task' = [task EXCEPT !.at = AfterRead(fut'[d])]
                /\ UNCHANGED sock
           ELSE \E n \in 1..Min(Len(k.rcv), room) :
                /\ fut' = [fut EXCEPT ![d].num_buf = @ + n,
                                      ![d].pipe = @ \o Prefix(k.rcv, n),
                                      ![d].took = @ \o Prefix(k.rcv, n)]
                /\ sock' = [sock EXCEPT ![r].rcv = Drop(@, n)]
                /\ task' = [task EXCEPT !.at = AfterRead(fut'[d])]

\* self.reader.poll_read_ready(cx)
ReadWait(d) ==
    /\ UNCHANGED <<svars, xvars>>
    /\ Polling(d)
    /\ task.at = "rdwait"
    /\ IF sock[Reader(d)].rd_ready
       THEN /\ task' = [task EXCEPT !.at = "read"]
            /\ UNCHANGED sock
       ELSE /\ sock' = [sock EXCEPT ![Reader(d)].rd_wait = TRUE]
            /\ task' = OnPending(task)
    /\ UNCHANGED fut

\* a completion test that forgets the bytes still in the pipe
DirCompleteOnEof(f) == f.read_done

\* self.num_buf == 0 && self.read_done
DirComplete(f) == f.num_buf = 0 /\ f.read_done

\* self.state = TransferState::Done; return Poll::Ready(Ok(()))
Complete(d) ==
    /\ UNCHANGED <<svars, xvars>>
    /\ Polling(d)
    /\ task.at = "check"
    /\ DirComplete(fut[d])
    /\ fut' = [fut EXCEPT ![d].state = "Done"]
    /\ task' = OnReady(task, d, "ok")
    /\ UNCHANGED sock

\* a write half that forgets to take the bytes it wrote off num_buf
SpliceOutKeepCount(d) ==
    /\ UNCHANGED <<svars, xvars>>
    /\ Polling(d)
    /\ task.at = "check"
    /\ ~DirComplete(fut[d])
    /\ LET f == fut[d]
           w == Writer(d)
           k == sock[w]
           room == SndCap - k.sndq
       IN  IF f.num_buf = 0
           THEN /\ task' = [task EXCEPT !.at = "read"]
                /\ UNCHANGED <<sock, fut>>
           ELSE IF ~k.wr_ready
           THEN \* try_io: not ready, WouldBlock without the system call
                /\ task' = [task EXCEPT !.at = "wrwait"]
                /\ UNCHANGED <<sock, fut>>
           ELSE IF k.err
           THEN /\ task' = OnReady(task, d, "err")
                /\ UNCHANGED <<sock, fut>>
           ELSE IF room = 0
           THEN \* EAGAIN: try_io clears the cached write readiness
                /\ sock' = [sock EXCEPT ![w].wr_ready = FALSE]
                /\ task' = [task EXCEPT !.at = "wrwait"]
                /\ UNCHANGED fut
           ELSE \E n \in 1..Min(Min(f.num_buf, Len(f.pipe)), room) :
                /\ fut' = [fut EXCEPT ![d].pipe = Drop(@, n),
                                      ![d].wrote = @ \o Prefix(f.pipe, n)]
                /\ sock' = [sock EXCEPT ![w].sndq = @ + n]
                /\ task' = [task EXCEPT !.at = "read"]

\* if self.num_buf > 0 { try_io(WRITABLE, splice(buf_read, writer, num_buf)) }
SpliceOut(d) ==
    /\ UNCHANGED <<svars, xvars>>
    /\ Polling(d)
    /\ task.at = "check"
    /\ ~DirComplete(fut[d])
    /\ LET f == fut[d]
           w == Writer(d)
           k == sock[w]
           room == SndCap - k.sndq
       IN  IF f.num_buf = 0
           THEN /\ task' = [task EXCEPT !.at = "read"]
                /\ UNCHANGED <<sock, fut>>
           ELSE IF ~k.wr_ready
           THEN \* try_io: not ready, WouldBlock without the system call
                /\ task' = [task EXCEPT !.at = "wrwait"]
                /\ UNCHANGED <<sock, fut>>
           ELSE IF k.err
           THEN /\ task' = OnReady(task, d, "err")
                /\ UNCHANGED <<sock, fut>>
           ELSE IF room = 0
           THEN \* EAGAIN: try_io clears the cached write readiness
                /\ sock' = [sock EXCEPT ![w].wr_ready = FALSE]
                /\ task' = [task EXCEPT !.at = "wrwait"]
                /\ UNCHANGED fut
           ELSE \E n \in 1..Min(Min(f.num_buf, Len(f.pipe)), room) :
                /\ fut' = [fut EXCEPT ![d].num_buf = @ - n,
                                      ![d].pipe = Drop(@, n),
                                      ![d].wrote = @ \o Prefix(f.pipe, n)]
                /\ sock' = [sock EXCEPT ![w].sndq = @ + n]
                /\ task' = [task EXCEPT !.at = "read"]

\* self.writer.poll_write_ready(cx)
WriteWait(d) ==
    /\ UNCHANGED <<svars, xvars>>
    /\ Polling(d)
    /\ task.at = "wrwait"
    /\ IF sock[Writer(d)].wr_ready
       THEN /\ task' = [task EXCEPT !.at = "read"]
            /\ UNCHANGED sock
       ELSE /\ sock' = [sock EXCEPT ![Writer(d)].wr_wait = TRUE]
            /\ task' = OnPending(task)
    /\ UNCHANGED fut

\* match self.state: a Done future returns Poll::Ready(Ok(())) at once, a
\* Running one enters the loop
PollEntry(f) == IF f.state = "Done" THEN "ready_ok" ELSE "loop"

\* SpliceFuture::poll on the future d between two polls of the task, by a
\* caller that still holds d after it completed: the match returns
\* Poll::Ready(Ok(())), which is recorded
PollAgain(d) ==
    /\ UNCHANGED <<svars, xvars>>
    /\ task.pc = "idle"
    /\ PollEntry(fut[d]) = "ready_ok"
    /\ task' = [task EXCEPT !.again = d]
    /\ UNCHANGED <<sock, fut>>

\* splice_bidirectional and the peers of its two sockets
Splice ==
    \/ MakeAtoB
    \/ MakeBtoA
    \/ SelectPoll
    \/ SelectNext
    \/ AwaitPoll
    \/ Return
    \/ \E d \in Dirs : SpliceIn(d)
    \/ \E d \in Dirs : ReadWait(d)
    \/ \E d \in Dirs : Complete(d)
    \/ \E d \in Dirs : SpliceOut(d)
    \/ \E d \in Dirs : WriteWait(d)
    \/ \E s \in Socks : PeerSend(s)
    \/ \E s \in Socks : PeerFin(s)
    \/ \E s \in Socks : PeerRecv(s)
    \/ \E s \in Socks : PeerReset(s)

(***************************************************************************)
(* The accept loop (socks5-server.rs): main accepts a connection and       *)
(* spawns a task that runs handle(stream) and prints its error.            *)
(***************************************************************************)
\* connections the listener is offered
MaxConns == 3

Conns == 1..MaxConns

\* how handle ends in a spawned task: Ok, Err, or a panic that unwinds the
\* task
HandleOutcomes == {"ok", "err", "panic"}

ServerInit ==
    /\ lis = "accepting"
    /\ tasks = [i \in Conns |-> "none"]
    /\ log = <<>>

\* no server is running
ServerOff ==
    /\ lis = "off"
    /\ tasks = [i \in Conns |-> "none"]
    /\ log = <<>>

\* let (stream, _) = lis.accept().await?; tokio::spawn(..)
Accept ==
    /\ UNCHANGED <<svars, pvars, codec, client, call>>
    /\ lis = "accepting"
    /\ \E i \in Conns :
          /\ tasks[i] = "none"
          /\ \A j \in 1..(i - 1) : tasks[j] # "none"
          /\ tasks' = [tasks EXCEPT ![i] = "running"]
    /\ UNCHANGED <<lis, log>>

\* lis.accept().await? fails: main returns the error, the runtime is dropped
\* and with it every task still running
AcceptErr ==
    /\ UNCHANGED <<svars, pvars, codec, client, call>>
    /\ lis = "accepting"
    /\ lis' = "exited"
    /\ tasks' = [i \in Conns |->
                   IF tasks[i] = "running" THEN "cancelled" ELSE tasks[i]]
    /\ UNCHANGED log

\* an accept loop that awaits the handler itself and returns its error
AfterHandlerPropagate(l, r) == IF r = "ok" THEN l ELSE "exited"

\* what the end of a handler does to the accept loop: the handler runs in a
\* spawned task, its Err is printed there and its panic ends that task only
AfterHandler(l, r) == l

\* if let Err(err) = handle(stream).await { eprintln!(..) }
HandlerReturns(i) ==
    /\ UNCHANGED <<svars, pvars, codec, client, call>>
    /\ lis = "accepting"
    /\ tasks[i] = "running"
    /\ \E r \in HandleOutcomes :
          /\ tasks' = [tasks EXCEPT ![i] = r]
          /\ log' = IF r = "err" THEN Append(log, i) ELSE log
          /\ lis' = AfterHandler(lis, r)

Server ==
    \/ Accept
    \/ AcceptErr
    \/ \E i \in Conns : HandlerReturns(i)

(***************************************************************************)
(* The codec on its own: encode a message and decode the bytes, or decode  *)
(* a byte sequence and encode the message again.  A message is a record of *)
(* the fields of ClientGreeting, ClientConnectionRequest and               *)
(* ServerResponse; `code` is the command or the status.                    *)
(***************************************************************************)
NoMsg == [methods |-> <<>>, code |-> 0, addr |-> NoAddress, port |-> 0]

NoBack == [kind |-> "none", err |-> "none", msg |-> NoMsg, used |-> 0]

Kinds == {"greeting", "request", "reply"}

\* Sendable::write_to / as_bytes of the message of kind k
Encode(k, m) ==
    CASE k = "greeting" -> ClientGreetingBytes(m.methods)
      [] k = "request" -> ClientConnectionRequestBytes(m.code, m.addr, m.port)
      [] k = "reply" -> ServerResponseAsBytes(m.code, m.addr, m.port)

\* read_from_stream / read_from of the message of kind k, on the stream s
Decode(k, s) ==
    CASE k = "greeting" ->
           LET r == GreetingRead(s)
           IN  [kind |-> r.kind, err |-> r.err, used |-> r.used,
                msg |-> [NoMsg EXCEPT !.methods = r.methods]]
      [] k = "request" ->
           LET r == RequestRead(s)
           IN  [kind |-> r.kind, err |-> r.err, used |-> r.used,
                msg |-> [methods |-> <<>>, code |-> r.cmd, addr |-> r.addr,
                         port |-> r.port]]
      [] k = "reply" ->
           LET r == ServerResponseRead(s)
           IN  [kind |-> r.kind, err |-> r.err, used |-> r.used,
                msg |-> [methods |-> <<>>, code |-> r.status, addr |-> r.addr,
                         port |-> r.port]]

\* Vec<AuthMethod>: short lists, and lists of 255 and 256 methods
MethodLists ==
    SeqsUpTo({0, 1, 2}, MaxMethods)
    \cup {[i \in 1..n |-> 2] : n \in {255, 256}}

\* String: empty, one ASCII character, one two-byte character, and 255 and
\* 256 bytes
DomainNames ==
    {<<>>, <<97>>, <<195, 169>>} \cup {[i \in 1..n |-> 97] : n \in {255, 256}}

Addresses ==
    {[tag |-> "Ipv4", bytes |-> <<127, 0, 0, 1>>],
     [tag |-> "Ipv6", bytes |-> [i \in 1..16 |-> i]]}
    \cup {[tag |-> "DomainName", bytes |-> d] : d \in DomainNames}

Ports == {0, 80, 65535}

Messages(k) ==
    CASE k = "greeting" -> {[NoMsg EXCEPT !.methods = ms] : ms \in MethodLists}
      [] k = "request" ->
           {[methods |-> <<>>, code |-> c, addr |-> a, port |-> p] :
               c \in {1, 2, 3}, a \in Addresses, p \in Ports}
      [] k = "reply" ->
           {[methods |-> <<>>, code |-> c, addr |-> a, port |-> p] :
               c \in 0..8, a \in Addresses, p \in Ports}

\* replies as a server may send them, cut short at every length, and with a
\* bad version, status or reserved byte
ReplyStreams ==
    UNION { Prefixes(<<SOCKS_VERSION, c, RESERVED>> \o a \o <<0, 80>>) :
              c \in {0, 5}, a \in AddressStreams }
    \cup { <<v, c, r, 1, 0, 0, 0, 0, 0, 0>> :
              v \in {4, SOCKS_VERSION}, c \in {0, 9}, r \in {0, 1} }

\* a message and, after it, the first bytes of whatever follows
Streams(k) ==
    CASE k = "greeting" -> GreetingStreams
      [] k = "request" -> RequestStreams \cup
                            {RequestStream(SOCKS_VERSION, 1, RESERVED, a) \o <<7>> :
                                a \in AddressStreams}
      [] k = "reply" -> ReplyStreams \cup
                          {<<SOCKS_VERSION, 0, RESERVED>> \o a \o <<0, 80, 7>> :
                              a \in AddressStreams}

CodecInit ==
    \E k \in Kinds :
       \/ \E m \in Messages(k) :
             codec = [mode |-> "msg", kind |-> k, msg |-> m, wire |-> <<>>,
                      back |-> NoBack, again |-> <<>>, step |-> "start"]
       \/ \E b \in Streams(k) :
             codec = [mode |-> "bytes", kind |-> k, msg |-> NoMsg, wire |-> b,
                      back |-> NoBack, again |-> <<>>, step |-> "start"]

\* the codec is not in use
CodecOff ==
    codec = [mode |-> "off", kind |-> "greeting", msg |-> NoMsg, wire |-> <<>>,
             back |-> NoBack, again |-> <<>>, step |-> "off"]

\* the message is written
EncodeMsg ==
    /\ UNCHANGED <<svars, pvars, lvars, client, call>>
    /\ codec.mode = "msg"
    /\ codec.step = "start"
    /\ codec' = [codec EXCEPT !.wire = Encode(codec.kind, codec.msg),
                              !.step = "encoded"]

\* the bytes are read
DecodeWire ==
    /\ UNCHANGED <<svars, pvars, lvars, client, call>>
    /\ \/ codec.mode = "msg" /\ codec.step = "encoded"
       \/ codec.mode = "bytes" /\ codec.step = "start"
    /\ codec' = [codec EXCEPT !.back = Decode(codec.kind, codec.wire),
                              !.step = "decoded"]

\* the message that was read is written again
EncodeAgain ==
    /\ UNCHANGED <<svars, pvars, lvars, client, call>>
    /\ codec.mode = "bytes"
    /\ codec.step = "decoded"
    /\ codec.back.kind = "ok"
    /\ codec' = [codec EXCEPT !.again = Encode(codec.kind, codec.back.msg),
                              !.step = "again"]

Codec ==
    \/ EncodeMsg
    \/ DecodeWire
    \/ EncodeAgain

(***************************************************************************)
(* The client's handshake driver (tcp_sock_stream.rs): connect(req) opens  *)
(* the connection to the server and runs socks_handshake over it.          *)
(***************************************************************************)
\* AuthMethod::try_from(u8) of tcp_sock_stream.rs, made to accept any byte
ClientAuthMethodAny(b) == TRUE

\* AuthMethod::try_from(u8) of tcp_sock_stream.rs: Ok for 0x00 only
ClientAuthMethodOk(b) == b = 0

\* ClientGreeting(vec![AuthMethod::NoAuth])
OfferedMethods == <<NoAuth>>

\* ClientGreeting::write_to of tcp_sock_stream.rs: the bytes it writes
ClientHello == <<SOCKS_VERSION, Len(OfferedMethods) % 256>> \o OfferedMethods

\* what a server may send: an auth choice, whole or cut short, and after a
\* whole one nothing, a success reply or a refusal
ServerAnswers ==
    {<<>>, <<SOCKS_VERSION>>, <<4>>}
    \cup { <<v, m>> \o r :
             v \in {4, SOCKS_VERSION}, m \in {0, 1, 2, 255},
             r \in {<<>>,
                    ServerResponseAsBytes(RequestGranted, EMPTY_ADDRESS, 0),
                    ServerResponseAsBytes(ConnectionRefusedByDestinationHost,
                                          EMPTY_ADDRESS, 0)} }

ClientInit ==
    \E a \in ServerAnswers :
       client = [pc      |-> "connect",
                 tcp     |-> "none",   \* the TcpStream: none, open or closed
                 answer  |-> a,        \* every byte the server sends
                 inbox   |-> a,        \* the bytes not yet read
                 pending |-> <<>>,     \* bytes of the write_all in progress
                 sent    |-> <<>>,     \* bytes written to the server
                 chosen  |-> -1,       \* the method byte of the auth choice
                 result  |-> "none",   \* what connect returned
                 err     |-> "none"]   \* the kind of the io::Error

\* connect has not been called
ClientOff ==
    client = [pc |-> "off", tcp |-> "none", answer |-> <<>>, inbox |-> <<>>,
              pending |-> <<>>, sent |-> <<>>, chosen |-> -1,
              result |-> "none", err |-> "none"]

\* connect returns Err(kind): conn, if there is one, is dropped
ClientFails(c, kind) ==
    [c EXCEPT !.pc = "done", !.result = "err", !.err = kind,
              !.pending = <<>>,
              !.tcp = IF c.tcp = "open" THEN "closed" ELSE c.tcp]

\* let mut conn = TcpStream::connect(&req.server_addr)?;
ClientConnect ==
    /\ UNCHANGED <<svars, pvars, lvars, codec, call>>
    /\ client.pc = "connect"
    /\ \/ client' = [client EXCEPT !.pc = "write_greeting", !.tcp = "open",
                                    !.pending = ClientHello]
       \/ client' = ClientFails(client, "ConnectionRefused")

\* msg_to_send.write_to(conn)?: write_all writes some of the bytes
ClientWriteSome ==
    /\ UNCHANGED <<svars, pvars, lvars, codec, call>>
    /\ client.pc = "write_greeting"
    /\ client.pending # <<>>
    /\ \E n \in 1..Len(client.pending) :
          client' = [client EXCEPT !.sent = @ \o Prefix(client.pending, n),
                                  !.pending = Drop(@, n)]

\* write_all fails
ClientWriteFail ==
    /\ UNCHANGED <<svars, pvars, lvars, codec, call>>
    /\ client.pc = "write_greeting"
    /\ client.pending # <<>>
    /\ client' = ClientFails(client, "BrokenPipe")

\* write_to returned Ok: ServerAuthChoice::read_from(conn) is next
ClientWritten ==
    /\ UNCHANGED <<svars, pvars, lvars, codec, call>>
    /\ client.pc = "write_greeting"
    /\ client.pending = <<>>
    /\ client' = [client EXCEPT !.pc = "read_auth_choice"]

\* ServerAuthChoice::read_from(conn), and the `?` of socks_handshake
ClientReadAuthChoice ==
    /\ UNCHANGED <<svars, pvars, lvars, codec, call>>
    /\ client.pc = "read_auth_choice"
    /\ LET buf == Prefix(client.inbox, 2)
       IN  IF Len(buf) < 2
           THEN client' = ClientFails([client EXCEPT !.inbox = <<>>],
                                      "UnexpectedEof")
           ELSE IF buf[1] # SOCKS_VERSION
           THEN client' = ClientFails([client EXCEPT !.inbox = Drop(@, 2)],
                                      "InvalidData")
           ELSE IF ~ClientAuthMethodOk(buf[2])
           THEN client' = ClientFails([client EXCEPT !.inbox = Drop(@, 2),
                                                     !.chosen = buf[2]],
                                      "InvalidData")
           ELSE client' = [client EXCEPT !.inbox = Drop(@, 2),
                                         !.chosen = buf[2],
                                         !.pc = "todo"]

\* println!("got resp: {resp:?}"); todo!(): the panic unwinds connect and
\* drops conn
ClientTodo ==
    /\ UNCHANGED <<svars, pvars, lvars, codec, call>>
    /\ client.pc = "todo"
    /\ client' = [client EXCEPT !.pc = "done", !.result = "panic",
                                !.tcp = "closed"]

Client ==
    \/ ClientConnect
    \/ ClientWriteSome
    \/ ClientWriteFail
    \/ ClientWritten
    \/ ClientReadAuthChoice
    \/ ClientTodo

(***************************************************************************)
(* Address::from_str (proto.rs).  A string is the sequence of its          *)
(* characters; the parsers are those of std::net: decimal octets without   *)
(* a leading zero, hexadecimal groups with at most one "::", a decimal     *)
(* port that fits a u16, and the whole string consumed.  The strings the   *)
(* function is applied to are in lower case, with no zone identifier and   *)
(* no dotted quad inside an IPv6 address.                                  *)
(***************************************************************************)
HexDigits ==
    <<"0", "1", "2", "3", "4", "5", "6", "7", "8", "9",
      "a", "b", "c", "d", "e", "f">>

IsDigit(c) == \E i \in 1..10 : HexDigits[i] = c

IsHexDigit(c) == \E i \in 1..16 : HexDigits[i] = c

DigitVal(c) == (CHOOSE i \in 1..16 : HexDigits[i] = c) - 1

\* the value of the digits ds in the given radix
RECURSIVE NumVal(_, _)
NumVal(ds, radix) ==
    IF ds = <<>> THEN 0
    ELSE NumVal(SubSeq(ds, 1, Len(ds) - 1), radix) * radix
            + DigitVal(ds[Len(ds)])

\* the parts of s between the occurrences of the character c
RECURSIVE Split(_, _)
Split(s, c) ==
    IF ~Contains(s, c) THEN <<s>>
    ELSE LET i == CHOOSE i \in 1..Len(s) :
                      s[i] = c /\ \A j \in 1..(i - 1) : s[j] # c
         IN  <<SubSeq(s, 1, i - 1)>> \o Split(SubSeq(s, i + 1, Len(s)), c)

\* read_number(10, Some(3), false) into a u8
IsOctet(p) ==
    /\ Len(p) \in 1..3
    /\ \A i \in 1..Len(p) : IsDigit(p[i])
    /\ Len(p) > 1 => p[1] # "0"
    /\ NumVal(p, 10) <= 255

\* read_number(16, Some(4), true) into a u16
IsGroup(p) ==
    /\ Len(p) \in 1..4
    /\ \A i \in 1..Len(p) : IsHexDigit(p[i])

\* read_number(10, None, true) into a u16
IsPort(p) ==
    /\ Len(p) >= 1
    /\ \A i \in 1..Len(p) : IsDigit(p[i])
    /\ NumVal(p, 10) <= 65535

NoIp == [ok |-> FALSE, bytes |-> <<>>]

\* Ipv4Addr::from_str
Ipv4Parse(s) ==
    LET parts == Split(s, ".")
    IN  IF Len(parts) = 4 /\ \A i \in 1..4 : IsOctet(parts[i])
        THEN [ok |-> TRUE, bytes |-> [i \in 1..4 |-> NumVal(parts[i], 10)]]
        ELSE NoIp

\* the groups of one side of "::", none when the side is empty
Groups(s) == IF s = <<>> THEN <<>> ELSE Split(s, ":")

\* the octets of a sequence of groups
GroupBytes(gs) ==
    [i \in 1..(2 * Len(gs)) |->
        LET v == NumVal(gs[(i + 1) \div 2], 16)
        IN  IF i % 2 = 1 THEN v \div 256 ELSE v % 256]

\* Ipv6Addr::from_str
Ipv6Parse(s) ==
    IF \E i \in 1..(Len(s) - 1) : s[i] = ":" /\ s[i + 1] = ":"
    THEN LET i == CHOOSE i \in 1..(Len(s) - 1) :
                      /\ s[i] = ":" /\ s[i + 1] = ":"
                      /\ \A j \in 1..(i - 1) : ~(s[j] = ":" /\ s[j + 1] = ":")
             head == Groups(SubSeq(s, 1, i - 1))
             tail == Groups(SubSeq(s, i + 2, Len(s)))
         IN  IF /\ Len(head) + Len(tail) <= 7
                /\ \A k \in 1..Len(head) : IsGroup(head[k])
                /\ \A k \in 1..Len(tail) : IsGroup(tail[k])
             THEN [ok |-> TRUE,
                   bytes |-> GroupBytes(head)
                       \o [k \in 1..(16 - 2 * (Len(head) + Len(tail))) |-> 0]
                       \o GroupBytes(tail)]
             ELSE NoIp
    ELSE LET gs == Split(s, ":")
         IN  IF Len(gs) = 8 /\ \A k \in 1..8 : IsGroup(gs[k])
             THEN [ok |-> TRUE, bytes |-> GroupBytes(gs)]
             ELSE NoIp

NoSocketAddr == [kind |-> "err", bytes |-> <<>>, port |-> 0]

\* SocketAddrV4::from_str: an IPv4 address, a colon and a port
SocketAddrV4Parse(s) ==
    IF ~Contains(s, ":") THEN NoSocketAddr
    ELSE LET i == CHOOSE i \in 1..Len(s) :
                      s[i] = ":" /\ \A j \in (i + 1)..Len(s) : s[j] # ":"
             ip == Ipv4Parse(SubSeq(s, 1, i - 1))
             port == SubSeq(s, i + 1, Len(s))
         IN  IF ip.ok /\ IsPort(port)
             THEN [kind |-> "V4", bytes |-> ip.bytes, port |-> NumVal(port, 10)]
             ELSE NoSocketAddr

\* SocketAddrV6::from_str: an IPv6 address in brackets, a colon and a port
SocketAddrV6Parse(s) ==
    IF s = <<>> \/ s[1] # "[" \/ ~Contains(s, "]") THEN NoSocketAddr
    ELSE LET j == CHOOSE j \in 1..Len(s) :
                      s[j] = "]" /\ \A k \in 1..(j - 1) : s[k] # "]"
             ip == Ipv6Parse(SubSeq(s, 2, j - 1))
             port == SubSeq(s, j + 2, Len(s))
         IN  IF ip.ok /\ Len(s) > j /\ s[j + 1] = ":" /\ IsPort(port)
             THEN [kind |-> "V6", bytes |-> ip.bytes, port |-> NumVal(port, 10)]
             ELSE NoSocketAddr

\* s.parse::<std::net::SocketAddr>()
SocketAddrParse(s) ==
    IF SocketAddrV4Parse(s).kind = "V4" THEN SocketAddrV4Parse(s)
    ELSE SocketAddrV6Parse(s)

\* Address::from_str
AddressFromStr(s) ==
    LET r == SocketAddrParse(s)
    IN  CASE r.kind = "V4" -> [tag |-> "Ipv4", bytes |-> r.bytes]
          [] r.kind = "V6" -> [tag |-> "Ipv6", bytes |-> r.bytes]
          [] OTHER -> [tag |-> "DomainName", bytes |-> s]

\* dotted quads, three of them well formed: 127.0.0.1, 0.0.0.0, 255.255.255.255, 256.0.0.1, 1.2.3, 01.2.3.4, 1.2.3.4.5
Ipv4Hosts ==
    { <<"1", "2", "7", ".", "0", ".", "0", ".", "1">>,
      <<"0", ".", "0", ".", "0", ".", "0">>,
      <<"2", "5", "5", ".", "2", "5", "5", ".", "2", "5", "5", ".", "2", "5", "5">>,
      <<"2", "5", "6", ".", "0", ".", "0", ".", "1">>,
      <<"1", ".", "2", ".", "3">>,
      <<"0", "1", ".", "2", ".", "3", ".", "4">>,
      <<"1", ".", "2", ".", "3", ".", "4", ".", "5">> }

\* IPv6 texts, five of them well formed: ::1, ::, 1::, 2001:db8::1, 1:2:3:4:5:6:7:8, 1:2:3:4:5:6:7, 1::2::3, 12345::, g::1
Ipv6Hosts ==
    { <<":", ":", "1">>,
      <<":", ":">>,
      <<"1", ":", ":">>,
      <<"2", "0", "0", "1", ":", "d", "b", "8", ":", ":", "1">>,
      <<"1", ":", "2", ":", "3", ":", "4", ":", "5", ":", "6", ":", "7", ":", "8">>,
      <<"1", ":", "2", ":", "3", ":", "4", ":", "5", ":", "6", ":", "7">>,
      <<"1", ":", ":", "2", ":", ":", "3">>,
      <<"1", "2", "3", "4", "5", ":", ":">>,
      <<"g", ":", ":", "1">> }

\* names: the empty string, a, a.b, lo
HostNames ==
    { <<>>,
      <<"a">>,
      <<"a", ".", "b">>,
      <<"l", "o">> }

\* the text after a host: a colon and a port, or a colon alone
PortSuffixes ==
    { <<":", "8", "0">>, <<":", "0">>, <<":", "6", "5", "5", "3", "5">>,
      <<":", "6", "5", "5", "3", "6">>, <<":">> }

\* destination strings: every host bare, in brackets, and with a port
DestStrings ==
    LET hosts == Ipv4Hosts \cup Ipv6Hosts \cup HostNames
        forms == hosts \cup {<<"[">> \o h \o <<"]">> : h \in hosts}
    IN  forms \cup {f \o x : f \in forms, x \in PortSuffixes}

(***************************************************************************)
(* One call of a function of proto.rs on its own: Address::from_str on a   *)
(* destination string, or the two Address decoders on the same bytes.      *)
(***************************************************************************)
NoRead == [kind |-> "none", err |-> "none", addr |-> NoAddress, used |-> 0]

\* the bytes an Address decoder is given: addresses followed by a port, cut
\* short at every length; among them an empty name, a name whose second
\* byte is not UTF-8, a name of 255 bytes and ATYP 0 and 255
AddressInputs ==
    UNION { Prefixes(a \o <<0, 80>>) :
              a \in AddressStreams \cup
                    { <<3, 0>>, <<3, 2, 97, 128>>, <<0>>, <<255>> } }
    \cup { <<3, 255>> \o [i \in 1..n |-> 97] : n \in {254, 255} }

CallInit ==
    \/ \E s \in DestStrings :
          call = [fn |-> "from_str", str |-> s, bytes |-> <<>>,
                  addr |-> NoAddress, async |-> NoRead, sync |-> NoRead,
                  done |-> FALSE]
    \/ \E b \in AddressInputs :
          call = [fn |-> "read_address", str |-> <<>>, bytes |-> b,
                  addr |-> NoAddress, async |-> NoRead, sync |-> NoRead,
                  done |-> FALSE]

\* no function is called
CallOff ==
    call = [fn |-> "off", str |-> <<>>, bytes |-> <<>>, addr |-> NoAddress,
            async |-> NoRead, sync |-> NoRead, done |-> FALSE]

\* Address::from_str(&dest_addr)
FromStrCall ==
    /\ UNCHANGED <<svars, pvars, lvars, codec, client>>
    /\ call.fn = "from_str"
    /\ ~call.done
    /\ call' = [call EXCEPT !.addr = AddressFromStr(call.str), !.done = TRUE]

\* Address::read_from_stream and Address::read_from, each given the bytes
ReadAddressCall ==
    /\ UNCHANGED <<svars, pvars, lvars, codec, client>>
    /\ call.fn = "read_address"
    /\ ~call.done
    /\ call' = [call EXCEPT !.async = AddressRead(call.bytes),
                            !.sync = AddressReadFrom(call.bytes),
                            !.done = TRUE]

Call ==
    \/ FromStrCall
    \/ ReadAddressCall

(***************************************************************************)
(* Specifications                                                          *)
(***************************************************************************)
Init ==
    /\ SessionInit
    /\ SpliceOff
    /\ ServerOff
    /\ CodecOff
    /\ ClientOff
    /\ CallOff

Next == Handle

Spec == Init /\ [][Next]_vars

InitSplice ==
    /\ SpliceInit
    /\ SessionOff
    /\ ServerOff
    /\ CodecOff
    /\ ClientOff
    /\ CallOff

NextSplice == Splice

SpecSplice == InitSplice /\ [][NextSplice]_vars

\* a relay whose client, the peer of a, sends nothing, and whose destination,
\* the peer of b, answers with one byte more than the pipe and the send queue
\* of a hold together
BurstLen == PipeCap + SndCap + 1

InitBurst ==
    /\ \E ra, rb \in BOOLEAN :
          sock = [s \in Socks |->
                    IF s = "a"
                    THEN [SockInit(s, ra) EXCEPT !.tosend = <<>>]
                    ELSE [SockInit(s, rb) EXCEPT
                             !.tosend = [i \in 1..BurstLen |-> 10 + i]]]
    /\ fut = [d \in Dirs |-> FutInit]
    /\ task = TaskInit
    /\ SessionOff
    /\ ServerOff
    /\ CodecOff
    /\ ClientOff
    /\ CallOff

SpecSpliceBurst == InitBurst /\ [][NextSplice]_vars

InitServer ==
    /\ ServerInit
    /\ SessionOff
    /\ SpliceOff
    /\ CodecOff
    /\ ClientOff
    /\ CallOff

InitClient ==
    /\ ClientInit
    /\ SessionOff
    /\ SpliceOff
    /\ ServerOff
    /\ CodecOff
    /\ CallOff

NextClient == Client

SpecClient == InitClient /\ [][NextClient]_vars

InitCodec ==
    /\ CodecInit
    /\ SessionOff
    /\ SpliceOff
    /\ ServerOff
    /\ ClientOff
    /\ CallOff

NextCodec == Codec

SpecCodec == InitCodec /\ [][NextCodec]_vars

NextServer == Server

SpecServer == InitServer /\ [][NextServer]_vars

InitCall ==
    /\ CallInit
    /\ SessionOff
    /\ SpliceOff
    /\ ServerOff
    /\ CodecOff
    /\ ClientOff

NextCall == Call

SpecCall == InitCall /\ [][NextCall]_vars

\* the steps of the task that runs splice_bidirectional
TaskNext ==
    \/ MakeAtoB
    \/ MakeBtoA
    \/ SelectPoll
    \/ SelectNext
    \/ AwaitPoll
    \/ Return
    \/ \E d \in Dirs : SpliceIn(d)
    \/ \E d \in Dirs : ReadWait(d)
    \/ \E d \in Dirs : Complete(d)
    \/ \E d \in Dirs : SpliceOut(d)
    \/ \E d \in Dirs : WriteWait(d)

\* the executor runs a woken task and a system call returns; a peer sends
\* what it has to send and reads what is sent to it.  Nothing obliges a
\* peer to close its connection.
SpecSpliceFair ==
    /\ SpecSplice
    /\ WF_vars(TaskNext)
    /\ \A s \in Socks : WF_vars(PeerSend(s)) /\ WF_vars(PeerRecv(s))

\* the relay, and a caller that polls a future again after it completed
NextSplicePoll ==
    \/ Splice
    \/ \E d \in Dirs : PollAgain(d)

SpecSplicePoll == InitSplice /\ [][NextSplicePoll]_vars

(***************************************************************************)
(* The session's states, in the words of the design.                       *)
(***************************************************************************)
Terminal == pc = "done"

\* the session is, or has been, waiting for the client's request
ReachedAwaitRequest == pc = "read_connect_request" \/ request.kind # "none"

\* the bytes the client sent after those the greeting reader took
RequestBytes == Drop(stream, greeting.used)

AuthAccept == <<5, 0>>
AuthReject == <<5, 255>>
SuccessReply == <<5, 0, 0, 1, 0, 0, 0, 0, 0, 0>>
GeneralFailureReply == <<5, 1, 0, 1, 0, 0, 0, 0, 0, 0>>

(***************************************************************************)
(* C1  Method selection.  For every greeting that parses, if the method    *)
(* list contains NoAuth (0x00) the server writes exactly 05 00 and goes on *)
(* to await the request; otherwise it writes exactly 05 FF and the session *)
(* ends without a request ever being read.  (A session whose write to the  *)
(* client fails with an I/O error ends there, with a prefix of those       *)
(* bytes written.)                                                         *)
(***************************************************************************)
C1_MethodSelection ==
    greeting.kind = "ok" =>
        IF \E i \in 1..Len(greeting.methods) : greeting.methods[i] = 0
        THEN /\ pc # "auth_none_write"
             /\ IsPrefix(Prefix(out, 2), AuthAccept)
             /\ ReachedAwaitRequest => Prefix(out, 2) = AuthAccept
             /\ (Terminal /\ ~ioerr) => ReachedAwaitRequest
        ELSE /\ pc \in {"choose_auth_method", "auth_none_write", "done"}
             /\ ~ReachedAwaitRequest
             /\ input = RequestBytes
             /\ IsPrefix(out, AuthReject)
             /\ (Terminal /\ ~ioerr) => (out = AuthReject /\ result = "err")

\* a greeting offering NoAuth as its second method was accepted with 05 00
C1_Witness ==
    /\ pc = "read_connect_request"
    /\ greeting.methods = <<2, 0>>
    /\ out = AuthAccept

(***************************************************************************)
(* C2  The handshake is strictly sequential: no byte is written before the *)
(* greeting read has returned; no request byte is read before the auth     *)
(* choice 05 00 is written in full; the destination is dialed only after   *)
(* the whole request has been read; no payload byte is relayed before the  *)
(* reply is written in full.                                               *)
(***************************************************************************)
C2_Sequential ==
    /\ (out # <<>> \/ pending # <<>>) =>
          /\ greeting.kind # "none"
          /\ Len(stream) - Len(input) >= greeting.used
    /\ (request.kind # "none" \/ Len(input) < Len(RequestBytes)) =>
          /\ Len(out) >= 2
          /\ Prefix(out, 2) = AuthAccept
    /\ (pc = "connect" \/ dial # "none") =>
          /\ request.kind = "ok"
          /\ request.used = 3 + Len(AddressAsBytes(request.addr)) + 2
          /\ Len(input) = Len(RequestBytes) - request.used
          /\ Prefix(out, 2) = AuthAccept
          /\ pc = "connect" => (out = AuthAccept /\ pending = <<>>)
    /\ (pc = "relay" \/ relayed > 0) =>
          /\ pending = <<>>
          /\ out = AuthAccept \o SuccessReply

\* a session that went through all four steps and relayed payload
C2_Witness ==
    /\ pc = "relay"
    /\ relayed = MaxRelay
    /\ request.addr.tag = "DomainName"

(***************************************************************************)
(* C3  On a successful Connect dial the server writes one reply, exactly   *)
(* 05 00 00 01 00 00 00 00 00 00, and only then enters the relay; a        *)
(* RequestGranted reply is never written unless the dial succeeded, and    *)
(* the relay is never entered without that reply written.                  *)
(***************************************************************************)
C3_SuccessReply ==
    /\ dial = "ok" => out \o pending = AuthAccept \o SuccessReply
    /\ (pc = "relay" \/ relayed > 0) =>
          (dial = "ok" /\ out = AuthAccept \o SuccessReply)
    /\ (Len(out) >= 4 /\ out[4] = 0) => dial = "ok"
    /\ (Len(out \o pending) >= 4 /\ (out \o pending)[4] = 0) => dial = "ok"
    /\ Len(out \o pending) <= 12

C3_Witness ==
    /\ pc = "relay"
    /\ dial = "ok"
    /\ out = AuthAccept \o SuccessReply
    /\ relayed > 0

(***************************************************************************)
(* C4  When the Connect dial fails, the session ends only after a reply    *)
(* with the mapped failure status and bound address 0.0.0.0:0 is written.  *)
(***************************************************************************)
MappedStatus(o) ==
    CASE o = "ConnectionRefused" -> ConnectionRefusedByDestinationHost
      [] o = "HostUnreachable" -> HostUnreachable
      [] o = "NetworkUnreachable" -> NetworkUnreachable
      [] o = "TtlExpired" -> TtlExpired
      [] OTHER -> GeneralFailure

C4_DialFailureReply ==
    (Terminal /\ dial \notin {"none", "ok"}) =>
        out = AuthAccept \o <<5, MappedStatus(dial), 0, 1, 0, 0, 0, 0, 0, 0>>

(***************************************************************************)
(* C5  When the request read fails with a protocol violation (version      *)
(* byte other than 0x05, reserved byte other than 0x00, unknown ATYP) the  *)
(* server writes a GeneralFailure reply and closes, and never dials.       *)
(***************************************************************************)
RequestViolation ==
    LET rs == RequestBytes
    IN  \/ Len(rs) >= 1 /\ rs[1] # 5
        \/ Len(rs) >= 3 /\ rs[3] # 0
        \/ Len(rs) >= 4 /\ rs[4] \notin {1, 3, 4}

C5_ProtocolViolation ==
    (request.kind # "none" /\ RequestViolation) =>
        /\ request.kind = "err"
        /\ pc \in {"request_err_write", "done"}
        /\ dial = "none"
        /\ relayed = 0
        /\ out \o pending = AuthAccept \o GeneralFailureReply
        /\ (Terminal /\ ~ioerr) =>
              (out = AuthAccept \o GeneralFailureReply /\ result = "err")

\* a request with reserved byte 0x01 was answered with GeneralFailure
C5_Witness ==
    /\ Terminal
    /\ Len(RequestBytes) >= 3
    /\ RequestBytes[1] = 5
    /\ RequestBytes[3] = 1
    /\ out = AuthAccept \o GeneralFailureReply

C7_UdpAssociateReply ==
    (Terminal /\ request.kind = "ok" /\ request.cmd = 3) =>
        /\ Len(out) >= 12
        /\ SubSeq(out, 3, 4) = <<5, CommandNotSupported>>

(***************************************************************************)
(* The relay, in the words of the design.                                  *)
(***************************************************************************)
\* SpliceFuture::poll never calls shutdown on its writer: the peer of s
\* reads EOF only once s itself has been dropped
PeerSeesEof(s) == ~sock[s].open

RelayReturned == task.pc \in {"returning", "returned"}

(***************************************************************************)
(* C8  Half-close propagation.  When a direction has seen end-of-stream on *)
(* its reader and delivered every buffered byte, the write half of its     *)
(* writer is shut down, so that the writer's peer reads EOF, and the other *)
(* direction keeps being driven until it finishes too.                     *)
(***************************************************************************)
C8_HalfClose ==
    \A d \in Dirs :
        fut[d].state = "Done" =>
            /\ PeerSeesEof(Writer(d))
            /\ task.result = "ok" => fut[Other(d)].state = "Done"

(***************************************************************************)
(* C9  The relay returns Ok only after both directions have completed:     *)
(* once the first direction completes without error, the other one is the  *)
(* future being driven, until it reaches EOF with its pipe drained or      *)
(* fails; the bytes of the other direction are not cut short.              *)
(***************************************************************************)
C9_BothComplete ==
    /\ task.result = "ok" =>
          \A d \in Dirs :
              /\ fut[d].state = "Done"
              /\ fut[d].read_done
              /\ fut[d].pipe = <<>>
              /\ fut[d].wrote = fut[d].took
              /\ sock[Reader(d)].rcv = <<>>
    /\ \A d \in Dirs :
          (fut[d].state = "Done" /\ fut[Other(d)].state = "Running"
              /\ ~RelayReturned) =>
                 /\ task.mode = "await"
                 /\ task.cur = Other(d)
                 /\ task.pc \in {"poll", "idle"}

\* the relay returned Ok with every byte of both peers delivered
C9_Witness ==
    /\ task.pc = "returned"
    /\ task.result = "ok"
    /\ \A d \in Dirs : Len(fut[d].wrote) = MaxData

(***************************************************************************)
(* C10  Within each direction the bytes delivered to the writer are always *)
(* a prefix of the bytes taken from the reader, in the order the reader's  *)
(* peer sent them, and are all of them once the direction has completed.   *)
(***************************************************************************)
C10_Fifo ==
    \A d \in Dirs :
        /\ IsPrefix(fut[d].wrote, fut[d].took)
        /\ IsPrefix(fut[d].took, DataOf(Reader(d)))
        /\ fut[d].state = "Done" => fut[d].wrote = fut[d].took

\* a direction completed after moving all of its peer's bytes
C10_Witness ==
    \E d \in Dirs :
        /\ fut[d].state = "Done"
        /\ fut[d].wrote = DataOf(Reader(d))
        /\ fut[Other(d)].state = "Running"
        /\ fut[Other(d)].pipe # <<>>

\* the system call the polled future d is about to make on its reader fails
\* with an error other than WouldBlock
SpliceInFails(d) ==
    /\ Polling(d)
    /\ task.at = "read"
    /\ ~fut[d].read_done
    /\ sock[Reader(d)].rd_ready
    /\ Len(fut[d].pipe) < PipeCap
    /\ sock[Reader(d)].err

\* the same, for the system call on its writer
SpliceOutFails(d) ==
    /\ Polling(d)
    /\ task.at = "check"
    /\ fut[d].num_buf > 0
    /\ sock[Writer(d)].wr_ready
    /\ sock[Writer(d)].err

\* the task, not a peer, takes the step
TaskSteps == task'.pc # task.pc \/ task'.at # task.at

(***************************************************************************)
(* C11  A system call of either direction that fails with an error other   *)
(* than WouldBlock makes splice_bidirectional return that error at once,   *)
(* and once it is returning no direction moves another byte.               *)
(***************************************************************************)
C11_ErrorTerminates ==
    [][ /\ \A d \in Dirs :
              ((SpliceInFails(d) \/ SpliceOutFails(d)) /\ TaskSteps) =>
                  /\ task'.pc = "returning"
                  /\ task'.result = "err"
                  /\ \A e \in Dirs : /\ fut'[e].took = fut[e].took
                                      /\ fut'[e].wrote = fut[e].wrote
        /\ RelayReturned =>
              /\ RelayReturned'
              /\ task'.result = task.result
              /\ \A e \in Dirs : /\ fut'[e].took = fut[e].took
                                  /\ fut'[e].wrote = fut[e].wrote
                                  /\ fut'[e].state = fut[e].state ]_vars

\* the relay returned an error after a reset of one socket, while the other
\* direction still had a byte of its peer to move
C11_Witness ==
    /\ task.pc = "returned"
    /\ task.result = "err"
    /\ \A d \in Dirs : fut[d].fds = "closed"
    /\ \E d \in Dirs :
          /\ sock[Reader(d)].err
          /\ ~sock[Writer(d)].err
          /\ fut[Other(d)].state = "Running"
          /\ sock[Writer(d)].rcv # <<>>

(***************************************************************************)
(* C12  Once either endpoint is closed by its peer (its FIN or its reset   *)
(* has arrived), the relay eventually returns, the task and the peers'     *)
(* traffic being scheduled fairly.                                         *)
(***************************************************************************)
C12_CloseTerminates ==
    (\E s \in Socks : sock[s].fin \/ sock[s].err) ~> (task.pc = "returned")

\* the task is suspended: it runs again only when a readiness event wakes it
Suspended == task.pc = "idle" /\ ~task.woken

\* a direction's source has unread data, its destination has room
SourceHasData(d) == sock[Reader(d)].rcv # <<>> /\ ~sock[Reader(d)].err
DestWritable(d) == sock[Writer(d)].sndq < SndCap /\ ~sock[Writer(d)].err

\* a direction with nothing to do: no data at its source, or no room at its
\* destination
Blocked(d) == ~SourceHasData(d) \/ ~DestWritable(d)

(***************************************************************************)
(* C13  While one direction is blocked, the other direction is not left    *)
(* suspended with data at its own source and room at its own destination:  *)
(* the task never sleeps, with no event to come from the source, on a      *)
(* direction that could move a byte.                                       *)
(***************************************************************************)
C13_Independent ==
    \A d \in Dirs :
        (/\ Suspended
         /\ Blocked(Other(d))
         /\ fut[Other(d)].state = "Running"
         /\ fut[d].state = "Running"
         /\ sock[Reader(d)].tosend = <<>>
         /\ ~sock[Reader(d)].fin)
            => ~(SourceHasData(d) /\ DestWritable(d))

(***************************************************************************)
(* C14  However the handler of a connection ends (Ok, Err or panic), the   *)
(* accept loop is still accepting afterwards, and while it is accepting a  *)
(* connection that is offered can be accepted, whatever became of the      *)
(* earlier ones.                                                           *)
(***************************************************************************)
C14_AcceptLoopIsolated ==
    /\ [][ (\E i \in Conns : tasks[i] = "running"
                               /\ tasks'[i] \in HandleOutcomes)
              => lis' = "accepting" ]_vars
    /\ []((lis = "accepting" /\ \E i \in Conns : tasks[i] = "none")
              => ENABLED Accept)

\* a connection was served to the end after one handler had returned an
\* error, which was printed, and another had panicked
C14_Witness ==
    /\ lis = "accepting"
    /\ tasks[1] = "err" /\ tasks[2] = "panic" /\ tasks[3] = "ok"
    /\ log = <<1>>

\* a message the design calls well-formed: 1 to 255 methods, a domain name
\* of 1 to 255 bytes
WellFormed(k, m) ==
    /\ k = "greeting" => Len(m.methods) \in 1..255
    /\ m.addr.tag = "DomainName" => Len(m.addr.bytes) \in 1..255

(***************************************************************************)
(* C15  Round trip: decoding the bytes that encoding a well-formed         *)
(* greeting, request or reply produced succeeds, takes all of the bytes    *)
(* and yields the message that was encoded.                                *)
(***************************************************************************)
C15_RoundTrip ==
    (/\ codec.mode = "msg"
     /\ codec.step = "decoded"
     /\ WellFormed(codec.kind, codec.msg))
        => /\ codec.back.kind = "ok"
           /\ codec.back.msg = codec.msg
           /\ codec.back.used = Len(codec.wire)

\* a request for a domain name of 255 bytes came back as it was sent
C15_Witness ==
    /\ codec.mode = "msg"
    /\ codec.step = "decoded"
    /\ codec.kind = "request"
    /\ codec.msg.addr.tag = "DomainName"
    /\ Len(codec.msg.addr.bytes) = 255
    /\ codec.msg.port = 65535
    /\ codec.back.msg = codec.msg

(***************************************************************************)
(* C16  Whenever decoding a greeting, request or reply from a byte         *)
(* sequence succeeds, encoding the decoded message again gives a prefix of *)
(* that sequence; a greeting whose stream ends before nmethods method      *)
(* bytes is not decoded successfully.                                      *)
(***************************************************************************)
C16_ReencodePrefix ==
    /\ (codec.mode = "bytes" /\ codec.step = "again")
          => IsPrefix(codec.again, codec.wire)
    /\ (/\ codec.mode = "bytes"
        /\ codec.kind = "greeting"
        /\ codec.step = "decoded"
        /\ Len(codec.wire) >= 2
        /\ Len(codec.wire) < 2 + codec.wire[2])
          => codec.back.kind # "ok"

\* the method bytes of the greeting the client sent, as many as arrived
SentMethods ==
    IF Len(stream) >= 2 /\ stream[1] = SOCKS_VERSION
    THEN Prefix(Drop(stream, 2), stream[2])
    ELSE <<>>

UnknownMethodSent == \E i \in 1..Len(SentMethods) : SentMethods[i] \notin {0, 1, 2}

GreetingWasRead == pc # "read_client_greeting"

(***************************************************************************)
(* C17, as stated  A greeting that offers NoAuth together with a method    *)
(* byte outside {0, 1, 2} is decoded, the unknown byte being kept as a     *)
(* method, and is answered with 05 00.                                     *)
(***************************************************************************)
C17_UnknownMethodKept ==
    (GreetingWasRead /\ UnknownMethodSent /\ Contains(SentMethods, NoAuth)) =>
        /\ greeting.kind = "ok"
        /\ greeting.methods = SentMethods
        /\ (Terminal /\ ~ioerr) => Prefix(out, 2) = AuthAccept

(***************************************************************************)
(* C17, amended  A greeting that contains a method byte outside {0, 1, 2}  *)
(* is aborted: decoding fails with InvalidData, also when the greeting     *)
(* offers NoAuth, the request is never awaited, and the session ends in    *)
(* error after writing 05 FF and nothing else.                             *)
(***************************************************************************)
C17_UnknownMethodRejected ==
    (GreetingWasRead /\ UnknownMethodSent) =>
        /\ greeting.kind = "err"
        /\ greeting.err = "InvalidData"
        /\ ~ReachedAwaitRequest
        /\ dial = "none"
        /\ IsPrefix(out, AuthReject)
        /\ (Terminal /\ ~ioerr) => (out = AuthReject /\ result = "err")

\* the greeting 05 02 00 FF, which offers NoAuth, was answered with 05 FF
C17_Witness ==
    /\ Terminal
    /\ IsPrefix(<<5, 2, 0, 255>>, stream)
    /\ greeting.kind = "err"
    /\ out = AuthReject

\* the client sent the first bytes of a greeting and disconnected
TruncatedGreeting ==
    /\ stream # <<>>
    /\ stream[1] = SOCKS_VERSION
    /\ Len(stream) < 2 \/ Len(stream) < 2 + stream[2]

\* the length of the request that begins with the bytes t
RequestLen(t) ==
    IF Len(t) < 4 THEN 10
    ELSE CASE t[4] = 1 -> 10
           [] t[4] = 4 -> 22
           [] t[4] = 3 -> IF Len(t) < 5 THEN 7 ELSE 7 + t[5]
           [] OTHER -> 0

\* after a whole greeting, the client sent the first bytes of a request, each
\* of them valid, and disconnected
TruncatedRequest ==
    LET t == RequestBytes
    IN  /\ greeting.kind = "ok"
        /\ ~TruncatedGreeting
        /\ t # <<>>
        /\ t[1] = SOCKS_VERSION
        /\ Len(t) >= 2 => ClientCommandOk(t[2])
        /\ Len(t) >= 3 => t[3] = RESERVED
        /\ Len(t) >= 4 => t[4] \in {1, 3, 4}
        /\ Len(t) < RequestLen(t)

(***************************************************************************)
(* C18  When the client disconnects in the middle of the greeting or of    *)
(* the request, the decoder returns the short-read error (it does not      *)
(* panic and returns no message) and the session ends in error without     *)
(* writing anything in answer to the unfinished message.                   *)
(***************************************************************************)
C18_ShortRead ==
    /\ (TruncatedGreeting /\ GreetingWasRead) =>
          /\ greeting.kind = "err"
          /\ greeting.err = "UnexpectedEof"
          /\ out = <<>>
          /\ pending = <<>>
          /\ Terminal => result = "err"
    /\ (TruncatedRequest /\ request.kind # "none") =>
          /\ request.kind = "err"
          /\ request.err = "UnexpectedEof"
          /\ out = AuthAccept
          /\ pending = <<>>
          /\ Terminal => result = "err"

\* the server's auth choice was read whole, with the right version
ChoiceRead == client.chosen # -1

(***************************************************************************)
(* C19  When the method the server chose is 0xFF, or is none of the        *)
(* methods the client offered, connect returns the error of the method     *)
(* negotiation, the connection is closed, and nothing but the greeting was *)
(* ever sent.                                                              *)
(***************************************************************************)
C19_NegotiationFailure ==
    (/\ ChoiceRead
     /\ client.chosen = 255 \/ ~Contains(OfferedMethods, client.chosen))
        => /\ client.pc = "done"
           /\ client.result = "err"
           /\ client.err = "InvalidData"
           /\ client.tcp = "closed"
           /\ client.sent = ClientHello

\* the server answered 05 FF and connect returned the error
C19_Witness ==
    /\ client.pc = "done"
    /\ client.answer = <<5, 255>>
    /\ client.chosen = 255
    /\ client.result = "err"
    /\ client.tcp = "closed"

\* the reply the server sends after its auth choice
ServerReply == ServerResponseRead(Drop(client.answer, 2))

(***************************************************************************)
(* C20  After the server chose NoAuth, connect sends the request after the *)
(* greeting and reads the reply; it returns the stream, still open, when   *)
(* the reply's status is Success, and fails when it is any other status.   *)
(***************************************************************************)
C20_HandshakeCompletes ==
    (/\ client.pc = "done"
     /\ client.chosen = NoAuth
     /\ ServerReply.kind = "ok")
        => /\ client.result # "panic"
           /\ IsPrefix(ClientHello, client.sent)
           /\ Len(client.sent) > Len(ClientHello)
           /\ client.inbox = <<>>
           /\ ServerReply.status = RequestGranted
                 => (client.result = "ok" /\ client.tcp = "open")
           /\ ServerReply.status # RequestGranted
                 => (client.result = "err" /\ client.tcp = "closed")

\* ClientCommand::EstablishPortBinding as u8
EstablishPortBinding == 2

\* the replies written after the auth choice, and how many they are when each
\* carries an IPv4 address
Replies == Drop(out, 2)
Ipv4ReplyLen == Len(SuccessReply)

(***************************************************************************)
(* C21  For a well-formed Bind request the session does not end, nor enter *)
(* the relay, before two replies are written in order after the auth       *)
(* choice, the first of them a Success reply; a session whose write fails  *)
(* with an I/O error is excepted.                                          *)
(***************************************************************************)
C21_BindTwoReplies ==
    (/\ request.kind = "ok"
     /\ request.cmd = EstablishPortBinding
     /\ ~ioerr
     /\ Terminal \/ pc = "relay")
        => /\ Len(Replies) >= 2 * Ipv4ReplyLen
           /\ SubSeq(Replies, 1, 2) = <<SOCKS_VERSION, RequestGranted>>
           /\ Replies[Ipv4ReplyLen + 1] = SOCKS_VERSION

\* the system call of a step moved bytes or changed a socket
DoesIo == sock' # sock \/ \E e \in Dirs : fut'[e].pipe # fut[e].pipe

\* the poll of d returns Poll::Ready(Ok(())) in this step, for the first time
ReturnsOk(d) == fut[d].state = "Running" /\ fut'[d].state = "Done"

\* the source of d has reached EOF and the pipe of d is drained
Drained(d) == fut[d].read_done /\ fut[d].num_buf = 0

(***************************************************************************)
(* C22  A direction returns Ok exactly when its source has reached EOF and *)
(* every byte spliced into its pipe has been spliced out: it is Done only  *)
(* with read_done set, num_buf = 0 and an empty pipe; once read_done is    *)
(* set and num_buf is 0 the poll in progress returns Ok without another    *)
(* system call; and a poll of a Done future returns Ok and does no I/O.    *)
(***************************************************************************)
C22_CompletionExact ==
    /\ [](\A d \in Dirs :
            /\ fut[d].state = "Done" =>
                  /\ Drained(d)
                  /\ fut[d].pipe = <<>>
                  /\ fut[d].wrote = fut[d].took
            /\ (Drained(d) /\ fut[d].state = "Running") =>
                  /\ Polling(d)
                  /\ task.at \in {"read", "check"})
    /\ [][ \A d \in Dirs :
              /\ ReturnsOk(d) =>
                    /\ Drained(d)
                    /\ fut[d].pipe = <<>>
                    /\ ~DoesIo
              /\ (Drained(d) /\ fut[d].state = "Running" /\ TaskSteps) =>
                    /\ ~DoesIo
                    /\ task.at = "check" => ReturnsOk(d)
              /\ (fut[d].state = "Done" /\ task'.again = d /\ task.again # d) =>
                    /\ ~DoesIo
                    /\ fut' = fut ]_vars

\* a direction that moved both bytes of its peer is Done, was polled once
\* more and returned Ok, while the other direction still holds a byte in its
\* pipe
C22_Witness ==
    \E d \in Dirs :
        /\ fut[d].state = "Done"
        /\ task.again = d
        /\ fut[d].wrote = DataOf(Reader(d))
        /\ fut[Other(d)].state = "Running"
        /\ fut[Other(d)].pipe # <<>>

(***************************************************************************)
(* C23  A direction that has completed no longer holds its pipe: its two   *)
(* descriptors are closed when it completes, whether or not the other      *)
(* direction or the relay has finished.                                    *)
(***************************************************************************)
C23_PipeReleasedOnCompletion ==
    \A d \in Dirs : fut[d].state = "Done" => fut[d].fds = "closed"

\* Address::from_str has returned
Classified == call.fn = "from_str" /\ call.done

(***************************************************************************)
(* C24  Address::from_str classifies a destination string that is an IPv4  *)
(* literal as Address::Ipv4 with its four octets, one that is an IPv6      *)
(* literal as Address::Ipv6 with its sixteen octets, and every other       *)
(* string as Address::DomainName holding the string.                       *)
(***************************************************************************)
C24_Classification ==
    Classified =>
        LET v4 == Ipv4Parse(call.str)
            v6 == Ipv6Parse(call.str)
        IN  call.addr =
               IF v4.ok THEN [tag |-> "Ipv4", bytes |-> v4.bytes]
               ELSE IF v6.ok THEN [tag |-> "Ipv6", bytes |-> v6.bytes]
               ELSE [tag |-> "DomainName", bytes |-> call.str]

\* a message has been encoded
Encoded == codec.mode = "msg" /\ codec.step \in {"encoded", "decoded"}

(***************************************************************************)
(* C25  In every encoded message the one-byte length field equals the      *)
(* number of bytes that follow it: nmethods is the number of method bytes  *)
(* of the greeting, and the length prefix of a domain name is the number   *)
(* of bytes of the name, also for lists and names longer than 255.         *)
(***************************************************************************)
C25_LengthFields ==
    Encoded =>
        /\ codec.kind = "greeting" =>
              /\ codec.wire[2] = Len(codec.msg.methods)
              /\ codec.wire[2] = Len(codec.wire) - 2
        /\ (codec.kind # "greeting" /\ codec.msg.addr.tag = "DomainName") =>
              /\ codec.wire[5] = Len(codec.msg.addr.bytes)
              /\ codec.wire[5] = Len(codec.wire) - 5 - 2

\* both Address decoders have returned
BothRead == call.fn = "read_address" /\ call.done

(***************************************************************************)
(* C26  On every byte sequence the blocking decoder Address::read_from and *)
(* the non-blocking decoder Address::read_from_stream agree: both accept   *)
(* or both reject, with the same kind of error, they take the same number  *)
(* of bytes and produce the same Address; bytes that are not UTF-8 and an  *)
(* unknown ATYP are rejected by both as InvalidData.                       *)
(***************************************************************************)
C26_DecodersAgree ==
    BothRead =>
        /\ call.async.kind = call.sync.kind
        /\ call.async.err = call.sync.err
        /\ call.async.used = call.sync.used
        /\ call.async.addr = call.sync.addr
        /\ call.sync.kind # "none"
        /\ (Len(call.bytes) >= 1 /\ call.bytes[1] \notin {1, 3, 4}) =>
              (call.sync.kind = "err" /\ call.sync.err = "InvalidData")
        /\ (/\ Len(call.bytes) >= 2
            /\ call.bytes[1] = 3
            /\ Len(call.bytes) >= 2 + call.bytes[2]
            /\ ~Utf8Valid(SubSeq(call.bytes, 3, 2 + call.bytes[2]))) =>
              (call.sync.kind = "err" /\ call.sync.err = "InvalidData")

\* both decoders rejected the domain name FF as InvalidData after taking its
\* three bytes
C26_Witness ==
    /\ BothRead
    /\ IsPrefix(<<3, 1, 255>>, call.bytes)
    /\ call.sync.err = "InvalidData"
    /\ call.async.err = "InvalidData"
    /\ call.sync.used = 3

\* the direction d is parked in poll_read_ready: its task sleeps until an
\* event on its source wakes it
WaitsForRead(d) ==
    /\ Suspended
    /\ fut[d].state = "Running"
    /\ sock[Reader(d)].rd_wait

(***************************************************************************)
(* C27  A direction never sleeps waiting for read readiness of its source  *)
(* while the source holds unread data or its EOF: when it waits, the       *)
(* receive queue of its source is empty and no FIN has arrived, also after *)
(* a splice into the pipe returned WouldBlock because the pipe was full.   *)
(***************************************************************************)
C27_NoLostReadiness ==
    \A d \in Dirs :
        WaitsForRead(d) =>
            /\ sock[Reader(d)].rcv = <<>>
            /\ ~sock[Reader(d)].fin

\* the step makes the system call of the write half of d: bytes reach the
\* writer, or the call returns EAGAIN and the write readiness is cleared
WriteAttempted(d) ==
    /\ Polling(d)
    /\ TaskSteps
    /\ \/ fut'[d].wrote # fut[d].wrote
       \/ sock'[Writer(d)].sndq # sock[Writer(d)].sndq
       \/ sock'[Writer(d)].wr_ready # sock[Writer(d)].wr_ready

\* the step makes the system call of the read half of d: bytes leave the
\* source, end of input is seen, or the call returns EAGAIN and the read
\* readiness is cleared
ReadAttempted(d) ==
    /\ Polling(d)
    /\ TaskSteps
    /\ \/ fut'[d].took # fut[d].took
       \/ fut'[d].read_done # fut[d].read_done
       \/ sock'[Reader(d)].rcv # sock[Reader(d)].rcv
       \/ sock'[Reader(d)].rd_ready # sock[Reader(d)].rd_ready

(***************************************************************************)
(* C28  In every state of a direction num_buf is the number of bytes in    *)
(* its pipe, the bytes spliced in less the bytes spliced out, and is never *)
(* negative; the write half makes its system call only with num_buf > 0    *)
(* and never takes more than num_buf; once read_done is set the read half  *)
(* makes no further system call and read_done stays set.                   *)
(***************************************************************************)
C28_NumBufIsPipeContent ==
    /\ [](\A d \in Dirs :
            /\ fut[d].num_buf >= 0
            /\ fut[d].num_buf = Len(fut[d].pipe)
            /\ fut[d].num_buf = Len(fut[d].took) - Len(fut[d].wrote)
            /\ fut[d].took = fut[d].wrote \o fut[d].pipe)
    /\ [][ \A d \in Dirs :
              /\ WriteAttempted(d) =>
                    /\ fut[d].num_buf > 0
                    /\ Len(fut'[d].wrote) - Len(fut[d].wrote) <= fut[d].num_buf
              /\ fut[d].read_done =>
                    /\ ~ReadAttempted(d)
                    /\ fut'[d].read_done
                    /\ fut'[d].took = fut[d].took ]_vars

\* a direction that has seen end of input is being polled with one of the
\* two bytes it took still in its pipe
C28_Witness ==
    \E d \in Dirs :
        /\ Polling(d)
        /\ fut[d].read_done
        /\ fut[d].num_buf = 1
        /\ Len(fut[d].took) = MaxData
        /\ Len(fut[d].wrote) = MaxData - 1

\* TcpStream::connect has been called, or is about to be
Dials == pc = "connect" \/ dial # "none"

(***************************************************************************)
(* C29  The server dials only in a session whose greeting was decoded and  *)
(* offers NoAuth, whose auth choice 05 00 was written in full, and whose   *)
(* request was decoded whole with command Connect; a session whose         *)
(* greeting or request failed, or whose command is not Connect, never      *)
(* dials and never relays.                                                 *)
(***************************************************************************)
C29_DialOnlyAfterConnect ==
    /\ Dials =>
          /\ greeting.kind = "ok"
          /\ Contains(greeting.methods, NoAuth)
          /\ Len(out) >= 2
          /\ Prefix(out, 2) = AuthAccept
          /\ request.kind = "ok"
          /\ request.cmd = EstablishConnection
          /\ request.addr.tag \in {"Ipv4", "DomainName", "Ipv6"}
          /\ Len(input) = Len(RequestBytes) - request.used
    /\ (\/ greeting.kind = "err"
        \/ (greeting.kind = "ok" /\ ~Contains(greeting.methods, NoAuth))
        \/ request.kind \in {"err", "panic"}
        \/ (request.kind = "ok" /\ request.cmd # EstablishConnection)) =>
          /\ ~Dials
          /\ pc # "relay"
          /\ relayed = 0

\* a session that was asked to connect to an IPv6 address dialed it, and
\* the dial was refused
C29_Witness ==
    /\ Terminal
    /\ dial = "ConnectionRefused"
    /\ request.cmd = EstablishConnection
    /\ request.addr.tag = "Ipv6"
    /\ greeting.methods = <<0>>

\* splice_one_way(&a, &b) returned Ok: the first pipe exists
FirstPipeMade == fut["a_to_b"].fds \in {"open", "closed"}

(***************************************************************************)
(* C30  Once the relay has returned, on whatever path after its first pipe *)
(* was made (both directions complete, an I/O error in a direction, the    *)
(* second pipe failing to be made), every pipe descriptor that was created *)
(* is closed; and a pipe is closed only by the return, so that a future is *)
(* polled only while its pipe is open.                                     *)
(***************************************************************************)
C30_PipesClosedOnExit ==
    FirstPipeMade =>
        /\ task.pc = "returned" =>
              \A d \in Dirs : fut[d].fds \in {"none", "closed"}
        /\ \A d \in Dirs :
              /\ fut[d].fds = "closed" => task.pc = "returned"
              /\ Polling(d) => fut[d].fds = "open"

====
